---- MODULE Spec2Model ----
(***************************************************************************)
(* Model of the Seat/Cupra connector of CarConnectivity:                   *)
(*   - Connector._fetch_data: the cache-aware GET with re-login on 401     *)
(*     (seatcupra/connector.py and the older cupra/connector.py);          *)
(*   - Connector.startup / _background_loop / shutdown: the poll loop,     *)
(*     its error-class specific waits and the shutdown protocol;           *)
(*   - MyCupraSession: login, refresh_tokens and request;                  *)
(*   - the command hooks of the connector (__on_lock_unlock and others).   *)
(* SpecFetch explores _fetch_data calls over a response cache, Spec the    *)
(* interleavings of the main thread and the worker thread (SpecLive adds   *)
(* weak fairness of the worker), SpecSession the calls into the session,   *)
(* SpecCommand the dispatch of commands.                                   *)
(***************************************************************************)
EXTENDS Integers, Sequences, FiniteSets, Bags, TLC

\* Python's None where a number is expected
None == -1
\* allowed_errors=None
NoAllowedErrors == {None}
\* no exception
NoExc == "None"

\* ------------------------------------------------------------------ bounds
\* clock values 0..MaxTime (abstract seconds)
MaxTime == 1
\* cap on the length of the _elapsed diagnostics list
MaxElapsed == 2
\* poll-loop iterations are counted up to MaxIterations; the count stays there afterwards
MaxIterations == 3

URLs == {1, 2}
Payloads == {1, 2}
\* configured values of max_age: caching disabled, or a threshold in seconds
MaxAges == {None, 0, 1}

\* ------------------------------------------------------- program constants
HttpOk == 200
HttpCreated == 201
HttpNoContent == 204
HttpMultiStatus == 207
HttpUnauthorized == 401
HttpTooManyRequests == 429
\* seconds the poll loop waits after TooManyRequestsError
TooManyRequestsWait == 900
\* the loop's `interval = 300` used while the interval attribute holds no value
DefaultInterval == 300
\* self.interval.minimum
MinInterval == 180
\* values the interval attribute takes: below and above the rate-limit wait
Intervals == {MinInterval, DefaultInterval, 1200}

Variants == {"seatcupra", "cupra"}

\* a body that status_response.json() cannot decode
BadJson == -2

\* exceptions of requests that _fetch_data catches
CaughtNetErrors == {"ConnectionError", "ChunkedEncodingError", "ReadTimeout", "RetryError"}

\* what a session.get can produce: a response, or a network-level exception
Responses ==
    [kind : {"resp"}, status : {HttpOk, HttpMultiStatus}, body : Payloads \cup {BadJson}, exc : {NoExc}]
    \cup [kind : {"resp"},
          status : {HttpNoContent, HttpUnauthorized, HttpTooManyRequests, 404, 500},
          body : {None}, exc : {NoExc}]
    \cup [kind : {"exc"}, status : {None}, body : {None}, exc : CaughtNetErrors]

\* no GET was issued
NoResponse == [kind |-> "none", status |-> None, body |-> None, exc |-> NoExc]

\* what session.login() can do
LoginOutcomes == {"ok", "AuthenticationError", "TemporaryAuthenticationError", "ConnectionError"}

\* values passed as allowed_errors
AllowedErrorChoices == {NoAllowedErrors, {404}, {HttpUnauthorized, HttpTooManyRequests}}

VARIABLES
    variant,        \* which connector module runs: seatcupra or the older cupra
    cache,          \* session.cache: url -> [data, date]
    now,            \* datetime.utcnow()
    max_age,        \* active_config['max_age']
    elapsed,        \* len(self._elapsed)
    call,           \* ghost: the last _fetch_data call, its inputs, HTTP traffic and result
    mainPc,         \* position of the thread that calls startup() and shutdown()
    workerPc,       \* position of the background thread in _background_loop
    stop_event,     \* self._stop_event
    connection_state, \* self.connection_state (seatcupra)
    connected,      \* self.connected (cupra)
    healthy,        \* self.healthy
    fetch,          \* the loop's local `fetch`
    intervalValue,  \* self.interval.value in seconds
    interval,       \* the loop's local `interval`
    cycleOutcome,   \* how the current or last fetch cycle ended: "ok" or the exception raised
    waitSecs,       \* timeout of the _stop_event.wait the worker is in or was last in
    last_update,    \* self.last_update: the iteration that recorded it last, 0 while never set
    sessionClosed,  \* session.close() was called
    joined,         \* shutdown() is past its join of the worker thread
    garage,         \* VINs in the garage that only this connector manages
    iteration,      \* ghost: number of the loop iteration the worker is in or was last in
    cycleOp,        \* ghost: what that iteration called: fetch_all or update_vehicles
    cycleDefect,    \* ghost: the defect of a vendor payload that iteration met, or "none"
    discovered,     \* ghost: some fetch_all() has returned without an exception
    token,          \* MyCupraSession.token: the token set, or no token
    user_id,        \* MyCupraSession.user_id
    sess,           \* ghost: the last call into the session, its inputs, HTTP traffic and result
    config_spin,    \* active_config['spin']
    cmd,            \* ghost: the last command dispatched, its inputs, HTTP traffic and result
    vehicles,       \* the connector's vehicles in the garage: vin -> capability ids and commands
    self_commands,  \* the connector's own command container (self.commands)
    vcall,          \* ghost: the last fetch_vehicles call, its responses and result
    ctor            \* ghost: the last call of Connector.__init__, its inputs and result

fetchVars == <<cache, now, max_age, elapsed, call>>
cycleGhost == <<iteration, cycleOp, cycleDefect, discovered>>
loopVars == <<mainPc, workerPc, stop_event, connection_state, connected, healthy, fetch, intervalValue,
              interval, cycleOutcome, waitSecs, last_update, sessionClosed, joined, garage, cycleGhost>>
sessVars == <<token, user_id, sess>>
\* the state outside the connector's fetcher and threads
cmdVars == <<config_spin, cmd>>
vehVars == <<vehicles, self_commands, vcall>>
restVars == <<sessVars, cmdVars, vehVars, ctor>>
\* the state of the connector's fetcher and threads
connVars == <<variant, fetchVars, loopVars>>
vars == <<connVars, restVars>>

\* ------------------------------------------------------------ conversions
\* str(datetime.utcnow()): the ISO text of a naive timestamp
DateStr(t) == <<0, t>>
\* datetime.fromisoformat(cache_date_string)
FromIsoFormat(s) == s[2]

\* ------------------------------------------------------------ _fetch_data
Returned(d, o) == [kind |-> "return", data |-> d, origin |-> o, exc |-> NoExc]
Raised(e) == [kind |-> "raise", data |-> None, origin |-> "none", exc |-> e]

\* the ghost record while no call is in progress
NoCall ==
    [url |-> 0, no_cache |-> FALSE, allow_empty |-> FALSE, allow_http_error |-> FALSE,
     allowed_errors |-> NoAllowedErrors, hadEntry |-> FALSE, entryAge |-> None, entryData |-> None,
     cacheBefore |-> <<>>, elapsedBefore |-> 0, events |-> <<>>, first |-> NoResponse, login |-> "ok", second |-> NoResponse,
     ret |-> Returned(None, "none")]

IsSuccessStatus(s) == s \in {HttpOk, HttpMultiStatus}

\* variant of ErrorNotAllowed: the two conditions joined by `and`
ErrorNotAllowedBothNeeded(allow_http_error, allowed_errors, s) ==
    ~allow_http_error /\ (allowed_errors # NoAllowedErrors /\ s \notin allowed_errors)

\* variant of ErrorNotAllowed: the list of allowed errors is not looked at
ErrorNotAllowedIgnoresList(allow_http_error, allowed_errors, s) ==
    ~allow_http_error

\* `not allow_http_error or (allowed_errors is not None and status not in allowed_errors)`
ErrorNotAllowed(allow_http_error, allowed_errors, s) ==
    ~allow_http_error \/ (allowed_errors # NoAllowedErrors /\ s \notin allowed_errors)

\* the cache lookup at the head of _fetch_data (session.cache is the mapping that
\* CarConnectivity.get_cache() hands out, so `session.cache is not None` holds)
CacheLookup(c, ma, url, no_cache) ==
    IF ~no_cache /\ (ma # None /\ url \in DOMAIN c)
    THEN [data |-> c[url].data, cache_date |-> FromIsoFormat(c[url].date), origin |-> "cache"]
    ELSE [data |-> None, cache_date |-> None, origin |-> "none"]

\* variant of NeedsFetch: an entry exactly max_age old is refetched
NeedsFetchAtBoundary(look, ma, t) ==
    look.data = None \/ ma = None \/ (look.cache_date # None /\ look.cache_date <= t - ma)

\* variant of NeedsFetch: the age of the entry is not looked at
NeedsFetchNoExpiry(look, ma, t) ==
    look.data = None \/ ma = None

\* the condition under which _fetch_data goes to the network
NeedsFetch(look, ma, t) ==
    look.data = None \/ ma = None \/ (look.cache_date # None /\ look.cache_date < t - ma)

\* variant of CacheStore: an entry that exists is left as it is
CacheStoreKeepsExisting(c, url, d, t) ==
    [u \in (DOMAIN c) \cup {url} |-> IF u \in DOMAIN c THEN c[u] ELSE [data |-> d, date |-> DateStr(t)]]

\* session.cache[url] = (data, str(datetime.utcnow()))
CacheStore(c, url, d, t) ==
    [u \in (DOMAIN c) \cup {url} |-> IF u = url THEN [data |-> d, date |-> DateStr(t)] ELSE c[u]]

\* variant of JsonDecodeError: allow_empty is not looked at
JsonDecodeErrorAlwaysRaises(allow_empty) ==
    Raised("RetrievalError")

\* the JSONDecodeError handler
JsonDecodeError(allow_empty) ==
    IF allow_empty THEN Returned(None, "none") ELSE Raised("RetrievalError")

\* status 204 is accepted as an empty answer by the seatcupra connector only
EmptyAccepted(v, s, allow_empty) ==
    v = "seatcupra" /\ s = HttpNoContent /\ allow_empty

\* variant of AfterRelogin: the answer of the retried GET is stored before its status
\* is looked at
AfterReloginStoresFirst(c, t, url, look, allow_empty, allow_http_error, allowed_errors, r2) ==
    IF r2.kind = "exc"
    THEN [ret |-> Raised("RetrievalError"), cache |-> c]
    ELSE IF IsSuccessStatus(r2.status)
    THEN IF r2.body = BadJson
         THEN [ret |-> JsonDecodeError(allow_empty), cache |-> c]
         ELSE [ret |-> Returned(r2.body, "http"), cache |-> CacheStore(c, url, r2.body, t)]
    ELSE IF ErrorNotAllowed(allow_http_error, allowed_errors, r2.status)
    THEN [ret |-> Raised("RetrievalError"), cache |-> CacheStore(c, url, None, t)]
    ELSE [ret |-> Returned(look.data, look.origin), cache |-> CacheStore(c, url, None, t)]

\* the branch taken for the response of the GET retried after login()
AfterRelogin(c, t, url, look, allow_empty, allow_http_error, allowed_errors, r2) ==
    IF r2.kind = "exc"
    THEN [ret |-> Raised("RetrievalError"), cache |-> c]
    ELSE IF IsSuccessStatus(r2.status)
    THEN IF r2.body = BadJson
         THEN [ret |-> JsonDecodeError(allow_empty), cache |-> c]
         ELSE [ret |-> Returned(r2.body, "http"), cache |-> CacheStore(c, url, r2.body, t)]
    ELSE IF ErrorNotAllowed(allow_http_error, allowed_errors, r2.status)
    THEN [ret |-> Raised("RetrievalError"), cache |-> c]
    ELSE [ret |-> Returned(look.data, look.origin), cache |-> c]

\* the whole of _fetch_data: r1 answers the first GET, lg is what login() does,
\* r2 answers the retried GET
FetchData(v, c, t, ma, url, no_cache, allow_empty, allow_http_error, allowed_errors, r1, lg, r2) ==
    LET look == CacheLookup(c, ma, url, no_cache)
    IN  IF ~NeedsFetch(look, ma, t)
        THEN [ret |-> Returned(look.data, look.origin), cache |-> c, events |-> <<>>, recorded |-> 0]
        ELSE IF r1.kind = "exc"
        THEN [ret |-> Raised("RetrievalError"), cache |-> c, events |-> <<"GET">>, recorded |-> 0]
        ELSE IF IsSuccessStatus(r1.status)
        THEN IF r1.body = BadJson
             THEN [ret |-> JsonDecodeError(allow_empty), cache |-> c, events |-> <<"GET">>, recorded |-> 1]
             ELSE [ret |-> Returned(r1.body, "http"), cache |-> CacheStore(c, url, r1.body, t),
                   events |-> <<"GET">>, recorded |-> 1]
        ELSE IF EmptyAccepted(v, r1.status, allow_empty)
        THEN [ret |-> Returned(None, "none"), cache |-> c, events |-> <<"GET">>, recorded |-> 1]
        ELSE IF r1.status = HttpTooManyRequests
        THEN [ret |-> Raised("TooManyRequestsError"), cache |-> c, events |-> <<"GET">>, recorded |-> 1]
        ELSE IF r1.status = HttpUnauthorized
        THEN IF lg = "ok"
             THEN LET a == AfterRelogin(c, t, url, look, allow_empty, allow_http_error, allowed_errors, r2)
                  IN  [ret |-> a.ret, cache |-> a.cache, events |-> <<"GET", "login", "GET">>, recorded |-> 1]
             ELSE [ret |-> Raised(IF lg \in CaughtNetErrors THEN "RetrievalError" ELSE lg), cache |-> c,
                   events |-> <<"GET", "login">>, recorded |-> 1]
        ELSE IF ErrorNotAllowed(allow_http_error, allowed_errors, r1.status)
        THEN [ret |-> Raised("RetrievalError"), cache |-> c, events |-> <<"GET">>, recorded |-> 1]
        ELSE [ret |-> Returned(look.data, look.origin), cache |-> c, events |-> <<"GET">>, recorded |-> 1]

\* ------------------------------------------------------- MyCupraSession
\* `if tries >= 3` of refresh_tokens
RefreshTries == 3
\* the attempts of the refresh POST the environment can answer: one more than the code makes
MaxAttempts == RefreshTries + 1

\* self.token is None
NoToken ==
    [present |-> FALSE, access_token |-> None, id_token |-> None, refresh_token |-> None,
     state |-> None, code |-> None]

\* a token set; None stands for a key the mapping does not hold
Tok(a, i, r, st, c) ==
    [present |-> TRUE, access_token |-> a, id_token |-> i, refresh_token |-> r, state |-> st, code |-> c]

\* the token sets a session is constructed with: none, or one restored from the token store
InitTokens == {NoToken, Tok(1, 1, None, None, None), Tok(1, 1, 1, None, None)}

UserIds == {7}

\* what parse_from_fragment can store from an authorization response: all four fields
\* of the code flow, one of them missing, or nothing
FragmentTokens ==
    {NoToken, Tok(1, 1, None, 1, 1), Tok(None, 1, None, 1, 1), Tok(1, None, None, 1, 1),
     Tok(1, 1, None, None, 1), Tok(1, 1, None, 1, None)}

\* a response body that json.loads cannot decode; also the body of no interest
UndecodableBody ==
    [json |-> FALSE, accessToken |-> None, access_token |-> None, idToken |-> None, id_token |-> None,
     refreshToken |-> None, refresh_token |-> None]

\* JSON bodies of the token endpoint: vendor keys or OAuth keys, with or without a refresh token
TokenBodies ==
    {UndecodableBody}
    \cup {[json |-> TRUE, accessToken |-> 2, access_token |-> None, idToken |-> 2, id_token |-> None,
           refreshToken |-> r, refresh_token |-> None] : r \in {None, 2}}
    \cup {[json |-> TRUE, accessToken |-> None, access_token |-> 2, idToken |-> None, id_token |-> 2,
           refreshToken |-> None, refresh_token |-> r] : r \in {None, 2}}

\* exceptions of requests derived from RequestException
NetworkErrors == {"ConnectionError", "ReadTimeout"}

\* what a POST to the token endpoint can produce
PostResults ==
    [kind : {"resp"}, status : {HttpOk}, body : TokenBodies, exc : {NoExc}]
    \cup [kind : {"resp"}, status : {400, HttpUnauthorized, 500, 502, 503, 504},
          body : {UndecodableBody}, exc : {NoExc}]
    \cup [kind : {"exc"}, status : {None}, body : {UndecodableBody}, exc : NetworkErrors]

\* no POST was issued
NoPost == [kind |-> "none", status |-> None, body |-> UndecodableBody, exc |-> NoExc]

\* how the authorization step of login() ends: the redirect shortcut, a completed web
\* authentication, or an error raised by the web authentication
AuthOutcomes == {"shortcut", "web", "AuthenticationError", "TemporaryAuthenticationError"}

\* URLs by their scheme part; the empty string is a missing URL
Schemes == {"", "http", "https", "HTTPS"}

\* str.lower() on a scheme
Lower(scheme) == IF scheme = "HTTPS" THEN "https" ELSE scheme

\* variant of IsSecureTransport: every URL passes
IsSecureTransportAlways(scheme) == TRUE

\* oauthlib's is_secure_transport: uri.lower().startswith('https://')
IsSecureTransport(scheme) == Lower(scheme) = "https"

\* the session's refresh_token property: the token set's refresh_token, None without one
StoredRefreshToken(tok) == IF tok.present THEN tok.refresh_token ELSE None

\* MyCupraSession.parse_from_body: decode, rename accessToken/idToken/refreshToken, and
\* let the parent class store the parsed mapping as the token set
ParseFromBody(tok, body) ==
    IF ~body.json
    THEN [exc |-> "TemporaryAuthenticationError", tok |-> tok]
    ELSE LET access == IF body.accessToken # None THEN body.accessToken ELSE body.access_token
             id == IF body.idToken # None THEN body.idToken ELSE body.id_token
             refresh == IF body.refreshToken # None THEN body.refreshToken ELSE body.refresh_token
         IN  [exc |-> NoExc, tok |-> Tok(access, id, refresh, None, None)]

\* `all(key in self.token for key in ('state', 'id_token', 'access_token', 'code'))`
HasExchangeFields(tok) ==
    /\ tok.present
    /\ tok.state # None /\ tok.id_token # None /\ tok.access_token # None /\ tok.code # None

\* MyCupraSession.fetch_tokens: the fragment's token is stored, then exchanged by one POST
FetchTokens(frag, post) ==
    IF HasExchangeFields(frag)
    THEN IF post.kind = "exc"
         THEN [exc |-> post.exc, tok |-> frag, events |-> <<"POST_exchange">>, obtained |-> FALSE]
         ELSE IF post.status # HttpOk
         THEN [exc |-> "TemporaryAuthenticationError", tok |-> frag, events |-> <<"POST_exchange">>,
               obtained |-> FALSE]
         ELSE LET parsed == ParseFromBody(frag, post.body)
              IN  [exc |-> parsed.exc, tok |-> parsed.tok, events |-> <<"POST_exchange">>,
                   obtained |-> parsed.exc = NoExc]
    ELSE [exc |-> NoExc, tok |-> frag, events |-> <<>>, obtained |-> FALSE]

\* MyCupraSession.login: authorization (shortcut or web authentication), then fetch_tokens
Login(tok, auth, frag, post) ==
    IF auth \notin {"shortcut", "web"}
    THEN [exc |-> auth, tok |-> tok, events |-> <<"web_auth">>, obtained |-> FALSE]
    ELSE LET ft == FetchTokens(frag, post)
         IN  [ft EXCEPT !.events = (IF auth = "web" THEN <<"web_auth">> ELSE <<>>) \o ft.events]

\* variant of PostWithRetries: one more attempt before giving up
PostWithRetriesOneMore(attempts, n, tries) ==
    LET firstResp == {k \in 1..MaxAttempts : attempts[k].kind = "resp"}
        last == IF firstResp = {} THEN MaxAttempts
                ELSE CHOOSE k \in firstResp : \A j \in firstResp : k <= j
    IN  IF attempts[last].kind = "exc"
        THEN [raised |-> TRUE, resp |-> NoPost, posts |-> last]
        ELSE [raised |-> FALSE, resp |-> attempts[last], posts |-> last]

\* refresh_tokens: the `while True` loop around self.post, entered for attempt n with
\* `tries` failures so far
RECURSIVE PostWithRetries(_, _, _)
PostWithRetries(attempts, n, tries) ==
    IF attempts[n].kind = "exc"
    THEN IF tries + 1 >= RefreshTries
         THEN [raised |-> TRUE, resp |-> NoPost, posts |-> n]
         ELSE PostWithRetries(attempts, n + 1, tries + 1)
    ELSE [raised |-> FALSE, resp |-> attempts[n], posts |-> n]

\* variant of NeedsLogin: a missing refresh token is posted like any other
NeedsLoginNever(arg, stored) == FALSE

\* refresh_tokens: `refresh_token = refresh_token or self.refresh_token`, then
\* `if refresh_token is None`
NeedsLogin(arg, stored) == (IF arg # None THEN arg ELSE stored) = None

\* variant of RetainRefreshToken: the parsed token set is kept as it is
RetainRefreshTokenNever(tok, refresh_token) == tok

\* refresh_tokens: `if self.token is not None and "refresh_token" not in self.token`
RetainRefreshToken(tok, refresh_token) ==
    IF tok.present /\ tok.refresh_token = None
    THEN [tok EXCEPT !.refresh_token = refresh_token]
    ELSE tok

\* refresh_tokens: the outcome chosen by the status of the token response
RefreshStatusOutcome(status) ==
    IF status = HttpUnauthorized THEN "AuthenticationError"
    ELSE IF status \in {500, 503, 504} THEN "TemporaryAuthenticationError"
    ELSE IF status = HttpOk THEN NoExc
    ELSE "RetrievalError"

\* a sequence of n POSTs of the refresh request
RECURSIVE RefreshPosts(_)
RefreshPosts(n) == IF n = 0 THEN <<>> ELSE <<"POST_refresh">> \o RefreshPosts(n - 1)

\* no login() was called
NoLogin == [called |-> FALSE, exc |-> NoExc, obtained |-> FALSE]

\* MyCupraSession.refresh_tokens
RefreshTokens(tok, scheme, arg, attempts, auth, frag, post) ==
    IF scheme = ""
    THEN [exc |-> "ValueError", tok |-> tok, events |-> <<>>, resp |-> NoPost, login |-> NoLogin]
    ELSE IF ~IsSecureTransport(scheme)
    THEN [exc |-> "InsecureTransportError", tok |-> tok, events |-> <<>>, resp |-> NoPost, login |-> NoLogin]
    ELSE IF NeedsLogin(arg, StoredRefreshToken(tok))
    THEN LET lg == Login(tok, auth, frag, post)
         IN  [exc |-> lg.exc, tok |-> lg.tok, events |-> <<"login">> \o lg.events, resp |-> NoPost,
              login |-> [called |-> TRUE, exc |-> lg.exc, obtained |-> lg.obtained]]
    ELSE LET refresh_token == IF arg # None THEN arg ELSE StoredRefreshToken(tok)
             posted == PostWithRetries(attempts, 1, 0)
             events == RefreshPosts(posted.posts)
         IN  IF posted.raised
             THEN [exc |-> "TemporaryAuthenticationError", tok |-> tok, events |-> events,
                   resp |-> NoPost, login |-> NoLogin]
             ELSE IF RefreshStatusOutcome(posted.resp.status) # NoExc
             THEN [exc |-> RefreshStatusOutcome(posted.resp.status), tok |-> tok, events |-> events,
                   resp |-> posted.resp, login |-> NoLogin]
             ELSE LET parsed == ParseFromBody(tok, posted.resp.body)
                  IN  IF parsed.exc # NoExc
                      THEN [exc |-> parsed.exc, tok |-> tok, events |-> events, resp |-> posted.resp,
                            login |-> NoLogin]
                      ELSE [exc |-> NoExc, tok |-> RetainRefreshToken(parsed.tok, refresh_token),
                            events |-> events, resp |-> posted.resp, login |-> NoLogin]

\* headers=None
NoHeaders == [given |-> FALSE, uid |-> None, accept |-> FALSE]
\* headers={}
EmptyHeaders == [given |-> TRUE, uid |-> None, accept |-> FALSE]

\* headers arguments of request: None, an empty mapping, a mapping without and one with
\* a user-id entry (uid), each maybe with another entry (accept)
HeaderChoices ==
    {NoHeaders, EmptyHeaders, [given |-> TRUE, uid |-> None, accept |-> TRUE],
     [given |-> TRUE, uid |-> 9, accept |-> TRUE], [given |-> TRUE, uid |-> 9, accept |-> FALSE]}

\* Python's truth value of the headers argument
Falsy(h) == ~h.given \/ (h.uid = None /\ ~h.accept)

\* MyCupraSession.request up to the call of the parent's request: `sent` are the headers
\* handed on, `caller` is the caller's own mapping after the call
Request(uid, scheme, headers) ==
    IF ~IsSecureTransport(scheme)
    THEN [exc |-> "InsecureTransportError", handedOn |-> FALSE, sent |-> NoHeaders, caller |-> headers]
    ELSE IF uid # None
    THEN LET h == IF Falsy(headers) THEN EmptyHeaders ELSE headers
             withUid == [h EXCEPT !.uid = uid]
         IN  [exc |-> NoExc, handedOn |-> TRUE, sent |-> withUid,
              caller |-> IF Falsy(headers) THEN headers ELSE withUid]
    ELSE [exc |-> NoExc, handedOn |-> TRUE, sent |-> headers, caller |-> headers]

\* no refresh POST was attempted
NoAttempts == [k \in 1..MaxAttempts |-> NoPost]

\* no call into the session is recorded
NoSess ==
    [op |-> "none", scheme |-> "", arg |-> None, tokenBefore |-> NoToken, events |-> <<>>,
     attempts |-> NoAttempts, resp |-> NoPost, exc |-> NoExc, ret |-> "none", login |-> NoLogin,
     auth |-> "none", frag |-> NoToken, exchange |-> NoPost, headers |-> NoHeaders,
     sent |-> NoHeaders, caller |-> NoHeaders, handedOn |-> FALSE]

\* ------------------------------------------------------ command dispatch
\* the command hooks the connector registers
Handlers ==
    {"charging", "climatization", "window_heating", "wake_sleep", "honk_flash", "lock_unlock", "spin"}

\* the mapping has no 'command' key
NoCommand == "absent"

\* values of the 'command' entry, over the Command enumerations of all command classes
Commands == {"START", "STOP", "WAKE", "SLEEP", "FLASH", "HONK_AND_FLASH", "LOCK", "UNLOCK", "VERIFY"}

\* active_config['spin'] == ''
EmptySpin == 0

\* values of active_config['spin']: None, the empty string, a PIN
ConfigSpins == {None, EmptySpin, 1}

\* what session.post can produce for a command: a response (that of the verify endpoint
\* maybe with a securityToken), an exception of requests, or an error of the session
CmdResponses ==
    [kind : {"resp"}, status : {HttpOk, HttpCreated, HttpNoContent, HttpUnauthorized, 500},
     secToken : {None}, exc : {NoExc}]
    \cup [kind : {"resp"}, status : {HttpCreated}, secToken : {5}, exc : {NoExc}]
    \cup [kind : {"exc"}, status : {None}, secToken : {None},
          exc : CaughtNetErrors \cup {"AuthenticationError"}]

\* no POST was issued
NoCmdResponse == [kind |-> "none", status |-> None, secToken |-> None, exc |-> NoExc]

\* an answer every handler accepts far enough to show which requests it makes
ProbeResponse == [kind |-> "resp", status |-> HttpCreated, secToken |-> 5, exc |-> NoExc]

\* how a handler ends: the exception raised (NoExc: command_arguments returned), the
\* requests made, and the SecToken header of the action POST
CmdResult(exc, events, sec) == [exc |-> exc, events |-> events, sec |-> sec]

\* the try/except around an action POST: exceptions in `caught` and statuses outside
\* `accepted` become CommandError, any other exception leaves the handler as it is
PostOutcome(resp, accepted, caught) ==
    IF resp.kind = "exc"
    THEN IF resp.exc \in caught THEN "CommandError" ELSE resp.exc
    ELSE IF resp.status \notin accepted THEN "CommandError" ELSE NoExc

\* variant of Validate: the 'command' key is not looked for
ValidateNoCommandCheck(h, in) ==
    IF h # "spin" /\ ~in.hierarchyOk THEN "CommandError"
    ELSE IF ~in.isDict THEN IF h = "lock_unlock" THEN "SetterError" ELSE "CommandError"
    ELSE IF h # "spin" /\ in.vin = None THEN "CommandError"
    ELSE NoExc

\* the checks every handler starts with: object hierarchy, arguments are a dict, VIN,
\* 'command' key (__on_spin has no vehicle and checks the arguments only)
Validate(h, in) ==
    IF h # "spin" /\ ~in.hierarchyOk THEN "CommandError"
    ELSE IF ~in.isDict THEN IF h = "lock_unlock" THEN "SetterError" ELSE "CommandError"
    ELSE IF h # "spin" /\ in.vin = None THEN "CommandError"
    ELSE IF in.command = NoCommand THEN "CommandError"
    ELSE NoExc

\* variant of OnStartStop: a 401 is answered with a re-login and a second POST
OnStartStopRetries(in, action) ==
    IF in.command \in {"START", "STOP"}
    THEN IF action.kind = "resp" /\ action.status = HttpUnauthorized
         THEN CmdResult("CommandError", <<"POST_action", "login", "POST_action">>, None)
         ELSE CmdResult(PostOutcome(action, {HttpOk, HttpCreated}, CaughtNetErrors), <<"POST_action">>, None)
    ELSE CmdResult("CommandError", <<>>, None)

\* __on_charging_start_stop and __on_window_heating_start_stop after the checks
OnStartStop(in, action) ==
    IF in.command \in {"START", "STOP"}
    THEN CmdResult(PostOutcome(action, {HttpOk, HttpCreated}, CaughtNetErrors), <<"POST_action">>, None)
    ELSE CmdResult("CommandError", <<>>, None)

\* __on_air_conditioning_start_stop after the checks
OnAirConditioningStartStop(in, action) ==
    IF in.command = "START" /\ ~in.settings
    THEN CmdResult("CommandError", <<>>, None)
    ELSE IF in.command \in {"START", "STOP"}
    THEN CmdResult(PostOutcome(action, {HttpOk, HttpCreated}, CaughtNetErrors), <<"POST_action">>, None)
    ELSE CmdResult("CommandError", <<>>, None)

\* __on_spin after the checks
OnSpin(spin, in, action) ==
    IF spin = None
    THEN CmdResult("CommandError", <<>>, None)
    ELSE IF in.spinArg = None /\ spin = EmptySpin
    THEN CmdResult("CommandError", <<>>, None)
    ELSE IF in.command = "VERIFY"
    THEN CmdResult(PostOutcome(action, {HttpCreated}, CaughtNetErrors), <<"POST_action">>, None)
    ELSE CmdResult("CommandError", <<>>, None)

\* __on_wake_sleep after the checks
OnWakeSleep(in, action) ==
    IF in.command = "WAKE"
    THEN CmdResult(PostOutcome(action, {HttpOk, HttpNoContent}, CaughtNetErrors), <<"POST_action">>, None)
    ELSE CmdResult("CommandError", <<>>, None)

\* __on_honk_flash after the checks: the `else` that raises 'Unknown command' belongs to
\* the try statement, so it runs when the POST was accepted; any other command value
\* falls through to `return command_arguments`
OnHonkFlash(in, action) ==
    IF in.command \in {"FLASH", "HONK_AND_FLASH"}
    THEN IF ~in.position
         THEN CmdResult("CommandError", <<>>, None)
         ELSE LET outcome == PostOutcome(action, {HttpOk, HttpNoContent}, CaughtNetErrors)
              IN  CmdResult(IF outcome = NoExc THEN "CommandError" ELSE outcome, <<"POST_action">>, None)
    ELSE CmdResult(NoExc, <<>>, None)

\* variant of FetchSecurityToken: the status of the verify response is not looked at
FetchSecurityTokenAnyStatus(verify) ==
    IF verify.kind = "exc" THEN [exc |-> verify.exc, token |-> None]
    ELSE [exc |-> NoExc, token |-> verify.secToken]

\* __fetchSecurityToken: the exception it leaves with, or NoExc with the token
FetchSecurityToken(verify) ==
    IF verify.kind = "exc" THEN [exc |-> verify.exc, token |-> None]
    ELSE IF verify.status # HttpCreated THEN [exc |-> "AuthenticationError", token |-> None]
    ELSE IF verify.secToken = None THEN [exc |-> "AuthenticationError", token |-> None]
    ELSE [exc |-> NoExc, token |-> verify.secToken]

\* __on_lock_unlock after the checks
OnLockUnlock(spin, in, verify, action) ==
    IF in.spinArg = None /\ spin = None
    THEN CmdResult("CommandError", <<>>, None)
    ELSE LET sec == FetchSecurityToken(verify)
         IN  IF sec.exc # NoExc
             THEN CmdResult(sec.exc, <<"POST_verify">>, None)
             ELSE IF in.command \notin {"LOCK", "UNLOCK"}
             THEN CmdResult("CommandError", <<"POST_verify">>, None)
             ELSE CmdResult(PostOutcome(action, {HttpOk}, CaughtNetErrors \cup {"AuthenticationError"}),
                            <<"POST_verify", "POST_action">>, sec.token)

\* the hook `h` called with the inputs `in`, from entry to return or raise
RunCommand(h, spin, in, verify, action) ==
    IF Validate(h, in) # NoExc THEN CmdResult(Validate(h, in), <<>>, None)
    ELSE IF h \in {"charging", "window_heating"} THEN OnStartStop(in, action)
    ELSE IF h = "climatization" THEN OnAirConditioningStartStop(in, action)
    ELSE IF h = "spin" THEN OnSpin(spin, in, action)
    ELSE IF h = "wake_sleep" THEN OnWakeSleep(in, action)
    ELSE IF h = "honk_flash" THEN OnHonkFlash(in, action)
    ELSE OnLockUnlock(spin, in, verify, action)

\* the request `e` is among the requests made
Requested(events, e) == \E k \in 1..Len(events) : events[k] = e

\* no command is recorded
NoCmd ==
    [handler |-> "none", hierarchyOk |-> FALSE, isDict |-> FALSE, vin |-> None, command |-> NoCommand,
     spinArg |-> None, settings |-> FALSE, position |-> FALSE, verify |-> NoCmdResponse,
     action |-> NoCmdResponse, events |-> <<>>, exc |-> NoExc, sec |-> None]

\* a connector whose session is not exercised
\* ----------------------------------------------------- Connector.__init__
\* the key is not in the config
Missing == -3

\* values of config['username'], config['password'], config['spin']
ConfigUsernames == {Missing, None, 1}
ConfigPasswords == {Missing, None, 3}
ConfigPins == {Missing, None, 5}
\* values of config['interval'] and config['brand']
ConfigIntervals == {Missing, MinInterval - 1, MinInterval, DefaultInterval}
ConfigBrands == {"missing", "seat", "cupra", "skoda"}

\* what netrc.netrc(file).authenticators("seatcupra") meets: no file, a file that does
\* not parse, no entry for seatcupra, or an entry (login, account, password) whose account
\* is None, the empty string or a PIN
NetrcEntries == [kind : {"entry"}, login : {2}, account : {None, EmptySpin, 6}, password : {4}]
NoNetrcEntry(kind) == [kind |-> kind, login |-> None, account |-> None, password |-> None]
NetrcFiles == {NoNetrcEntry("absent"), NoNetrcEntry("malformed"), NoNetrcEntry("noEntry")} \cup NetrcEntries

\* what refresh() of the new session ends with
RefreshOutcomes == {NoExc, "AuthenticationError", "TemporaryAuthenticationError"}

\* `if 'spin' in config and config['spin'] is not None`
ConfiguredSpin(cfg) == IF cfg.spin \notin {Missing, None} THEN cfg.spin ELSE None

\* `if 'username' in config and 'password' in config`
CredentialsInConfig(cfg) == cfg.username # Missing /\ cfg.password # Missing

\* variant of NetrcSpin: the account of the netrc entry is taken whenever there is one
NetrcSpinAlways(spin, account) == IF account # None THEN account ELSE spin

\* `if self.active_config['spin'] is None and account is not None`
NetrcSpin(spin, account) == IF spin = None /\ account # None THEN account ELSE spin

\* variant of CredentialsMissing: only the username is looked at
CredentialsMissingUsernameOnly(username, password) == username = None

\* `if self.active_config['username'] is None or self.active_config['password'] is None`
CredentialsMissing(username, password) == username = None \/ password = None

\* how __init__ ends: the exception raised (NoExc: the connector is constructed), the
\* credentials in active_config then, and what had been done
CtorResult(exc, username, password, spin, netrcRead, sessionCreated, refreshed) ==
    [exc |-> exc, username |-> username, password |-> password, spin |-> spin,
     netrcRead |-> netrcRead, sessionCreated |-> sessionCreated, refreshed |-> refreshed]

\* __init__ from the interval check on, with the credentials resolved so far
AfterCredentials(cfg, username, password, spin, netrcRead, isSession, refreshExc) ==
    IF cfg.interval # Missing /\ cfg.interval < MinInterval
    THEN CtorResult("ValueError", username, password, spin, netrcRead, FALSE, FALSE)
    ELSE IF cfg.brand \notin {"missing", "seat", "cupra"}
    THEN CtorResult("ValueError", username, password, spin, netrcRead, FALSE, FALSE)
    ELSE IF CredentialsMissing(username, password)
    THEN CtorResult("AuthenticationError", username, password, spin, netrcRead, FALSE, FALSE)
    ELSE IF ~isSession
    THEN CtorResult("AuthenticationError", username, password, spin, netrcRead, TRUE, FALSE)
    ELSE CtorResult(refreshExc, username, password, spin, netrcRead, TRUE, TRUE)

\* the whole of __init__: credentials from the config or from the netrc file, then the
\* checks of interval and brand, the session and its first refresh()
Constructor(cfg, netrcFile, isSession, refreshExc) ==
    LET spin == ConfiguredSpin(cfg)
    IN  IF CredentialsInConfig(cfg)
        THEN AfterCredentials(cfg, cfg.username, cfg.password, spin, FALSE, isSession, refreshExc)
        ELSE IF netrcFile.kind # "entry"
        THEN CtorResult("AuthenticationError", None, None, spin, TRUE, FALSE, FALSE)
        ELSE AfterCredentials(cfg, netrcFile.login, netrcFile.password, NetrcSpin(spin, netrcFile.account),
                              TRUE, isSession, refreshExc)

\* no constructor call is recorded
NoCtor ==
    [done |-> FALSE,
     cfg |-> [username |-> Missing, password |-> Missing, spin |-> Missing, interval |-> Missing,
              brand |-> "missing"],
     netrcFile |-> NoNetrcEntry("absent"), isSession |-> FALSE, refreshExc |-> NoExc,
     res |-> CtorResult(NoExc, None, None, None, FALSE, FALSE, FALSE)]

InitCtorIdle == ctor = NoCtor

\* --------------------------------------------------------- fetch_vehicles
VehicleVins == {1, 2}
\* capability ids the vendor reports; each gates one command
CapabilityIds == {"access", "charging"}
\* lock-unlock is registered with the doors, start-stop with the charging object
VehicleCommands == {"lock-unlock", "start-stop"}
\* the command of the connector itself
ConnectorCommands == {"spin"}

\* a command container is the bag of the commands added to it, so that a second
\* registration under one name would show
\* variant of ContainsCommand: no command is ever found
ContainsCommandNever(commands, name) == FALSE

\* commands.contains_command(name)
ContainsCommand(commands, name) == BagIn(name, commands)

\* commands.add_command(command)
AddCommand(commands, name) == commands (+) SetToBag({name})

\* `if not ...commands.contains_command(name): ... commands.add_command(command)`
RegisterCommand(commands, name) ==
    IF ~ContainsCommand(commands, name) THEN AddCommand(commands, name) ELSE commands

\* fetch_all, before fetch_vehicles: 'Add spin command'
AddSpinCommand(commands) == RegisterCommand(commands, "spin")

\* a VIN the garage has no vehicle for
NoVehicle == [present |-> FALSE, capabilities |-> {}, commands |-> EmptyBag]
\* SeatCupraVehicle(vin=vin, garage=garage, managing_connector=self)
NewVehicle == [present |-> TRUE, capabilities |-> {}, commands |-> EmptyBag]

\* what the capabilities request of one vehicle yields: an error of _fetch_data, a body
\* without a 'capabilities' list, or a list; `ids` are the ids of its entries, `ok` those
\* whose status passes has_capability(check_status_ok=True), `missingId` says that an
\* entry without 'id' follows the entries with ids
NoCapabilities == [kind |-> "none", ids |-> {}, ok |-> {}, missingId |-> FALSE]
CapabilitiesRaised == [kind |-> "raise", ids |-> {}, ok |-> {}, missingId |-> FALSE]
CapabilityLists ==
    {r \in [kind : {"list"}, ids : SUBSET CapabilityIds, ok : SUBSET CapabilityIds, missingId : BOOLEAN] :
        r.ok \subseteq r.ids}
CapabilityResponses == {NoCapabilities, CapabilitiesRaised} \cup CapabilityLists

\* Capabilities.has_capability(capability_id, check_status_ok=True)
HasCapability(capabilities, ok, id) == id \in capabilities /\ id \in ok

\* 'Add lock and unlock command': with the access capability the command is registered
\* unless it is there already, and in that case clear_capabilities() is called
AccessCapability(capabilities, ok, commands) ==
    IF HasCapability(capabilities, ok, "access")
    THEN IF ~ContainsCommand(commands, "lock-unlock")
         THEN [capabilities |-> capabilities, commands |-> AddCommand(commands, "lock-unlock")]
         ELSE [capabilities |-> {}, commands |-> commands]
    ELSE [capabilities |-> capabilities, commands |-> commands]

\* the capabilities part of fetch_vehicles for one vehicle: ids found are added, ids not
\* found are removed, then the commands the capabilities gate are registered
UpdateCapabilities(veh, resp) ==
    IF resp.kind = "raise" THEN [vehicle |-> veh, exc |-> "RetrievalError"]
    ELSE IF resp.kind = "none" THEN [vehicle |-> veh, exc |-> NoExc]
    ELSE IF resp.missingId
    THEN [vehicle |-> [veh EXCEPT !.capabilities = veh.capabilities \cup resp.ids], exc |-> "APIError"]
    ELSE LET found == resp.ids
             kept == (veh.capabilities \cup found) \ ((veh.capabilities \cup found) \ found)
             charging == IF HasCapability(kept, resp.ok, "charging")
                         THEN RegisterCommand(veh.commands, "start-stop") ELSE veh.commands
             access == AccessCapability(kept, resp.ok, charging)
         IN  [vehicle |-> [present |-> TRUE, capabilities |-> access.capabilities,
                           commands |-> access.commands],
              exc |-> NoExc]

\* the loop over data['vehicles'], in list order (here: ascending VIN); it ends at the
\* first vehicle whose capabilities raise
RECURSIVE ForEachVehicle(_, _, _)
ForEachVehicle(vs, todo, capsOf) ==
    IF todo = {} THEN [vehicles |-> vs, exc |-> NoExc]
    ELSE LET vin == CHOOSE v \in todo : \A w \in todo : v <= w
             veh == IF vs[vin].present THEN vs[vin] ELSE NewVehicle
             upd == UpdateCapabilities(veh, capsOf[vin])
             vs1 == [vs EXCEPT ![vin] = upd.vehicle]
         IN  IF upd.exc # NoExc THEN [vehicles |-> vs1, exc |-> upd.exc]
             ELSE ForEachVehicle(vs1, todo \ {vin}, capsOf)

\* the vehicle list: an error of _fetch_data, or the VINs listed, possibly followed by an
\* entry without 'vin'
VehicleLists ==
    [kind : {"list"}, vins : SUBSET VehicleVins, missingVin : BOOLEAN]
    \cup [kind : {"raise"}, vins : {{}}, missingVin : {FALSE}]

\* the whole of fetch_vehicles: the loop, the removal of the vehicles no longer listed,
\* and update_vehicles(), which ends with updateExc
FetchVehicles(vs, list, capsOf, updateExc) ==
    IF list.kind = "raise" THEN [vehicles |-> vs, exc |-> "RetrievalError"]
    ELSE LET loop == ForEachVehicle(vs, list.vins, capsOf)
         IN  IF loop.exc # NoExc THEN loop
             ELSE IF list.missingVin THEN [vehicles |-> loop.vehicles, exc |-> "APIError"]
             ELSE [vehicles |-> [vin \in VehicleVins |->
                                    IF vin \in list.vins THEN loop.vehicles[vin] ELSE NoVehicle],
                   exc |-> updateExc]

NoVehicles == [vin \in VehicleVins |-> NoVehicle]
NoVCall ==
    [active |-> FALSE, list |-> [kind |-> "raise", vins |-> {}, missingVin |-> FALSE],
     capsOf |-> [vin \in VehicleVins |-> NoCapabilities], before |-> NoVehicles, exc |-> NoExc]

InitVehIdle ==
    /\ vehicles = NoVehicles
    /\ self_commands = EmptyBag
    /\ vcall = NoVCall

InitRestIdle ==
    /\ token = NoToken
    /\ user_id = None
    /\ sess = NoSess
    /\ config_spin = None
    /\ cmd = NoCmd
    /\ InitVehIdle
    /\ InitCtorIdle

\* ------------------------------------------------- the connector's threads
Vins == {1}

\* what a fetch cycle (fetch_all or update_vehicles) can end with
CycleOutcomes ==
    {"ok", "TooManyRequestsError", "RetrievalError", "APIError", "APICompatibilityError",
     "TemporaryAuthenticationError", "AuthenticationError", "KeyError"}

\* defects of a vendor payload that the parsing code can meet
PayloadDefects == {"missingVin", "missingCapabilityId", "missingCarCapturedTimestamp", "hoodWithoutDoors"}

\* the defects the calls of one cycle can meet: fetch_vehicles parses the vehicle list and
\* the capabilities, update_vehicles (seatcupra only) the status payloads
DefectsOf(v, fullFetch) ==
    (IF fullFetch THEN {"missingVin", "missingCapabilityId"} ELSE {})
    \cup (IF v = "seatcupra" THEN {"missingCarCapturedTimestamp", "hoodWithoutDoors"} ELSE {})

\* the exception the parsing code raises on a payload with that defect: APIError where
\* the code tests for the key, KeyError where vehicle_status_data['doors'] is indexed
\* without a test
PayloadError(defect) ==
    IF defect = "hoodWithoutDoors" THEN "KeyError" ELSE "APIError"

\* variant of HandledExceptions: every exception is caught and retried
HandledExceptionsAll(v) == CycleOutcomes \ {"ok"}

\* the exception classes _background_loop has a wait-and-retry handler for
HandledExceptions(v) ==
    IF v = "seatcupra"
    THEN {"TooManyRequestsError", "RetrievalError", "APIError", "APICompatibilityError",
          "TemporaryAuthenticationError"}
    ELSE {"TooManyRequestsError", "RetrievalError", "APICompatibilityError", "TemporaryAuthenticationError"}

\* variant of WaitSeconds: a rate-limit error waits like any retrieval error
WaitSecondsIntervalOnly(outcome, iv) == iv

\* the timeout handed to _stop_event.wait by the handler of `outcome`
WaitSeconds(outcome, iv) ==
    IF outcome = "TooManyRequestsError" THEN TooManyRequestsWait ELSE iv

\* `if self.interval.value is not None: interval = self.interval.value.total_seconds()`
ReadInterval(value, iv) == IF value # None THEN value ELSE iv

\* the statements of shutdown() in program order
ShutdownOrder(v) ==
    IF v = "seatcupra"
    THEN <<"remove", "set", "close", "join", "persist", "base">>
    ELSE <<"remove", "set", "join", "persist", "close", "base">>

ShutdownSteps == {"remove", "set", "close", "join", "persist", "base"}

\* the statement of shutdown() that follows statement `step`
AfterShutdownStep(v, step) ==
    LET order == ShutdownOrder(v)
        i == CHOOSE k \in 1..Len(order) : order[k] = step
    IN  IF i = Len(order) THEN "shutdownDone" ELSE order[i + 1]

WorkerEnded == workerPc \in {"done", "dead"}

InitLoopVars ==
    /\ mainPc = "constructed"
    /\ workerPc = "notStarted"
    /\ stop_event = FALSE
    /\ connection_state = "DISCONNECTED"
    /\ connected = FALSE
    /\ healthy = FALSE
    /\ fetch = TRUE
    /\ intervalValue \in Intervals
    /\ interval = DefaultInterval
    /\ cycleOutcome = "ok"
    /\ waitSecs = 0
    /\ last_update = 0
    /\ sessionClosed = FALSE
    /\ joined = FALSE
    /\ garage = {}
    /\ iteration = 0
    /\ cycleOp = "none"
    /\ cycleDefect = "none"
    /\ discovered = FALSE

Init ==
    /\ variant \in Variants
    /\ cache = <<>>
    /\ now = 0
    /\ max_age = None
    /\ elapsed = 0
    /\ call = NoCall
    /\ InitLoopVars
    /\ InitRestIdle

\* startup(): create and start the background thread
StartupStartThread ==
    /\ mainPc = "constructed"
    /\ workerPc' = "entered"
    /\ mainPc' = IF variant = "seatcupra" THEN "threadStarted" ELSE "running"
    /\ UNCHANGED <<stop_event, connection_state, connected, healthy, fetch, intervalValue, interval,
                   cycleOutcome, waitSecs, last_update, sessionClosed, joined, garage>>
    /\ UNCHANGED <<variant, fetchVars, cycleGhost, restVars>>

\* startup(): self.healthy._set_value(value=True)
StartupSetHealthy ==
    /\ mainPc = "threadStarted"
    /\ healthy' = TRUE
    /\ mainPc' = "running"
    /\ UNCHANGED <<workerPc, stop_event, connection_state, connected, fetch, intervalValue, interval,
                   cycleOutcome, waitSecs, last_update, sessionClosed, joined, garage>>
    /\ UNCHANGED <<variant, fetchVars, cycleGhost, restVars>>

\* a user changes the interval attribute (minimum 180 seconds)
SetInterval ==
    /\ mainPc # "shutdownDone"
    /\ \E v \in Intervals :
        /\ v >= MinInterval
        /\ v # intervalValue
        /\ intervalValue' = v
    /\ UNCHANGED <<mainPc, workerPc, stop_event, connection_state, connected, healthy, fetch, interval,
                   cycleOutcome, waitSecs, last_update, sessionClosed, joined, garage>>
    /\ UNCHANGED <<variant, fetchVars, cycleGhost, restVars>>

\* _background_loop: self._stop_event.clear(); fetch = True
WorkerClearStop ==
    /\ workerPc = "entered"
    /\ stop_event' = FALSE
    /\ fetch' = TRUE
    /\ workerPc' = IF variant = "seatcupra" THEN "connecting" ELSE "loopCheck"
    /\ UNCHANGED <<mainPc, connection_state, connected, healthy, intervalValue, interval, cycleOutcome,
                   waitSecs, last_update, sessionClosed, joined, garage>>
    /\ UNCHANGED <<variant, fetchVars, cycleGhost, restVars>>

\* _background_loop: connection_state := CONNECTING
WorkerConnecting ==
    /\ workerPc = "connecting"
    /\ connection_state' = "CONNECTING"
    /\ workerPc' = "loopCheck"
    /\ UNCHANGED <<mainPc, stop_event, connected, healthy, fetch, intervalValue, interval, cycleOutcome,
                   waitSecs, last_update, sessionClosed, joined, garage>>
    /\ UNCHANGED <<variant, fetchVars, cycleGhost, restVars>>

\* variant of WorkerLoopCheck: the loop condition does not look at the stop event
WorkerLoopCheckIgnoresStop ==
    /\ workerPc = "loopCheck"
    /\ workerPc' = "cycle"
    /\ interval' = DefaultInterval
    /\ UNCHANGED <<mainPc, stop_event, connection_state, connected, healthy, fetch, intervalValue,
                   cycleOutcome, waitSecs, last_update, sessionClosed, joined, garage>>
    /\ UNCHANGED <<variant, fetchVars, cycleGhost, restVars>>

\* _background_loop: `while not self._stop_event.is_set():` and `interval = 300`
WorkerLoopCheck ==
    /\ workerPc = "loopCheck"
    /\ IF stop_event
       THEN workerPc' = "leaving" /\ UNCHANGED interval
       ELSE workerPc' = "cycle" /\ interval' = DefaultInterval
    /\ UNCHANGED <<mainPc, stop_event, connection_state, connected, healthy, fetch, intervalValue,
                   cycleOutcome, waitSecs, last_update, sessionClosed, joined, garage>>
    /\ UNCHANGED <<variant, fetchVars, cycleGhost, restVars>>

\* the garage after a cycle: fetch_vehicles adds the listed vehicles and, when it gets
\* that far, removes the unlisted ones; update_vehicles leaves the garage alone
GarageAfterCycle(g, fullFetch, outcome, seen) ==
    IF ~fullFetch THEN {g}
    ELSE IF outcome = "ok" THEN {seen}
    ELSE {g \cup s : s \in SUBSET seen} \cup {seen}

\* variant of FetchAfterCycle: the flag is cleared by the first iteration whatever it ends with
FetchAfterCycleAlwaysCleared(v, f, outcome) == IF v = "seatcupra" THEN FALSE ELSE f

\* the loop's `fetch` after the inner try block: `fetch = False` follows a fetch_all()
\* that returned; the cupra loop has no such flag and calls fetch_all() every time
FetchAfterCycle(v, f, outcome) ==
    IF outcome = "ok" /\ v = "seatcupra" THEN FALSE ELSE f

\* variant of LastUpdateAfterCycle: the timestamp is written once and then kept
LastUpdateAfterCycleOnce(outcome, lu, it) == IF outcome = "ok" /\ lu = 0 THEN it ELSE lu

\* self.last_update after the inner try block: set when fetch_all/update_vehicles returned
LastUpdateAfterCycle(outcome, lu, it) == IF outcome = "ok" THEN it ELSE lu

\* the iteration count after one more iteration has started
NextIteration(it) == IF it < MaxIterations THEN it + 1 ELSE MaxIterations

\* _background_loop: the inner try block, fetch_all() or update_vehicles(), up to the
\* point where the outcome is known and the interval attribute has been read
WorkerRunCycle ==
    /\ workerPc = "cycle"
    /\ \E defect \in DefectsOf(variant, fetch \/ variant = "cupra") \cup {"none"} :
      \E outcome \in IF defect = "none" THEN CycleOutcomes ELSE {PayloadError(defect)}, seen \in SUBSET Vins :
        LET fullFetch == fetch \/ variant = "cupra"
        IN  /\ cycleOutcome' = outcome
            /\ cycleDefect' = defect
            /\ garage' \in GarageAfterCycle(garage, fullFetch, outcome, seen)
            /\ fetch' = FetchAfterCycle(variant, fetch, outcome)
            /\ last_update' = LastUpdateAfterCycle(outcome, last_update, NextIteration(iteration))
            /\ connected' = IF outcome # "ok" /\ variant = "cupra" THEN FALSE ELSE connected
            /\ cycleOp' = IF fullFetch THEN "fetch_all" ELSE "update_vehicles"
            /\ discovered' = (discovered \/ (fullFetch /\ outcome = "ok"))
    /\ iteration' = NextIteration(iteration)
    /\ interval' = ReadInterval(intervalValue, interval)
    /\ workerPc' = "handle"
    /\ UNCHANGED <<mainPc, stop_event, connection_state, healthy, intervalValue, waitSecs,
                   sessionClosed, joined>>
    /\ UNCHANGED <<variant, fetchVars, restVars>>

\* _background_loop: the except/else clause chosen by the outcome of the cycle
WorkerHandleOutcome ==
    /\ workerPc = "handle"
    /\ IF cycleOutcome = "ok"
       THEN /\ connection_state' = IF variant = "seatcupra" THEN "CONNECTED" ELSE connection_state
            /\ connected' = IF variant = "cupra" THEN TRUE ELSE connected
            /\ waitSecs' = interval
            /\ workerPc' = "waiting"
            /\ UNCHANGED healthy
       ELSE IF cycleOutcome \in HandledExceptions(variant)
       THEN /\ connection_state' = IF variant = "seatcupra" THEN "ERROR" ELSE connection_state
            /\ waitSecs' = WaitSeconds(cycleOutcome, interval)
            /\ workerPc' = "waiting"
            /\ UNCHANGED <<connected, healthy>>
       ELSE /\ connection_state' = IF variant = "seatcupra" THEN "ERROR" ELSE connection_state
            /\ healthy' = IF variant = "seatcupra" THEN FALSE ELSE healthy
            /\ workerPc' = "dead"
            /\ UNCHANGED <<connected, waitSecs>>
    /\ UNCHANGED <<mainPc, stop_event, fetch, intervalValue, interval, cycleOutcome, last_update,
                   sessionClosed, joined, garage>>
    /\ UNCHANGED <<variant, fetchVars, cycleGhost, restVars>>

\* _stop_event.wait(timeout) returns: the event was set or the timeout has passed
WorkerWaitReturns ==
    /\ workerPc = "waiting"
    /\ workerPc' = "loopCheck"
    /\ UNCHANGED <<mainPc, stop_event, connection_state, connected, healthy, fetch, intervalValue,
                   interval, cycleOutcome, waitSecs, last_update, sessionClosed, joined, garage>>
    /\ UNCHANGED <<variant, fetchVars, cycleGhost, restVars>>

\* variant of WorkerLeaveLoop: the thread ends without touching the connection state
WorkerLeaveLoopKeepsState ==
    /\ workerPc = "leaving"
    /\ workerPc' = "done"
    /\ UNCHANGED <<mainPc, stop_event, connection_state, connected, healthy, fetch, intervalValue, interval,
                   cycleOutcome, waitSecs, last_update, sessionClosed, joined, garage>>
    /\ UNCHANGED <<variant, fetchVars, cycleGhost, restVars>>

\* _background_loop: the statement after the loop
WorkerLeaveLoop ==
    /\ workerPc = "leaving"
    /\ connection_state' = IF variant = "seatcupra" THEN "DISCONNECTED" ELSE connection_state
    /\ workerPc' = "done"
    /\ UNCHANGED <<mainPc, stop_event, connected, healthy, fetch, intervalValue, interval, cycleOutcome,
                   waitSecs, last_update, sessionClosed, joined, garage>>
    /\ UNCHANGED <<variant, fetchVars, cycleGhost, restVars>>

\* shutdown(): remove the vehicles only this connector manages
ShutdownRemoveVehicles ==
    /\ mainPc \in {"constructed", "running"}
    /\ garage' = {}
    /\ mainPc' = AfterShutdownStep(variant, "remove")
    /\ UNCHANGED <<workerPc, stop_event, connection_state, connected, healthy, fetch, intervalValue,
                   interval, cycleOutcome, waitSecs, last_update, sessionClosed, joined>>
    /\ UNCHANGED <<variant, fetchVars, cycleGhost, restVars>>

\* shutdown(): self._stop_event.set()
ShutdownSetStop ==
    /\ mainPc = "set"
    /\ stop_event' = TRUE
    /\ mainPc' = AfterShutdownStep(variant, "set")
    /\ UNCHANGED <<workerPc, connection_state, connected, healthy, fetch, intervalValue, interval,
                   cycleOutcome, waitSecs, last_update, sessionClosed, joined, garage>>
    /\ UNCHANGED <<variant, fetchVars, cycleGhost, restVars>>

\* shutdown(): self.session.close()
ShutdownCloseSession ==
    /\ mainPc = "close"
    /\ sessionClosed' = TRUE
    /\ mainPc' = AfterShutdownStep(variant, "close")
    /\ UNCHANGED <<workerPc, stop_event, connection_state, connected, healthy, fetch, intervalValue,
                   interval, cycleOutcome, waitSecs, last_update, joined, garage>>
    /\ UNCHANGED <<variant, fetchVars, cycleGhost, restVars>>

\* shutdown(): `if self._background_thread is not None: self._background_thread.join()`
ShutdownJoin ==
    /\ mainPc = "join"
    /\ workerPc = "notStarted" \/ WorkerEnded
    /\ joined' = TRUE
    /\ mainPc' = AfterShutdownStep(variant, "join")
    /\ UNCHANGED <<workerPc, stop_event, connection_state, connected, healthy, fetch, intervalValue,
                   interval, cycleOutcome, waitSecs, last_update, sessionClosed, garage>>
    /\ UNCHANGED <<variant, fetchVars, cycleGhost, restVars>>

\* shutdown(): self.persist(), then BaseConnector.shutdown(self)
ShutdownFinish ==
    /\ mainPc \in {"persist", "base"}
    /\ mainPc' = AfterShutdownStep(variant, mainPc)
    /\ UNCHANGED <<workerPc, stop_event, connection_state, connected, healthy, fetch, intervalValue,
                   interval, cycleOutcome, waitSecs, last_update, sessionClosed, joined, garage>>
    /\ UNCHANGED <<variant, fetchVars, cycleGhost, restVars>>

Next ==
    \/ StartupStartThread
    \/ StartupSetHealthy
    \/ SetInterval
    \/ WorkerClearStop
    \/ WorkerConnecting
    \/ WorkerLoopCheck
    \/ WorkerRunCycle
    \/ WorkerHandleOutcome
    \/ WorkerWaitReturns
    \/ WorkerLeaveLoop
    \/ ShutdownRemoveVehicles
    \/ ShutdownSetStop
    \/ ShutdownCloseSession
    \/ ShutdownJoin
    \/ ShutdownFinish

Spec == Init /\ [][Next]_vars

\* the steps of the background thread
WorkerStep ==
    \/ WorkerClearStop
    \/ WorkerConnecting
    \/ WorkerLoopCheck
    \/ WorkerRunCycle
    \/ WorkerHandleOutcome
    \/ WorkerWaitReturns
    \/ WorkerLeaveLoop

\* the started thread keeps running: every HTTP call carries a timeout and every wait
\* returns when the event is set or the timeout has passed
SpecLive == Init /\ [][Next]_vars /\ WF_vars(WorkerStep)

\* -------------------------------------------------------------- SpecFetch
InitFetch ==
    /\ variant \in Variants
    /\ cache = <<>>
    /\ now = 0
    /\ max_age \in MaxAges
    /\ elapsed = 0
    /\ call = NoCall
    /\ InitLoopVars
    /\ InitRestIdle
    /\ intervalValue = DefaultInterval

\* time passes
Tick ==
    /\ call = NoCall
    /\ now < MaxTime
    /\ now' = now + 1
    /\ UNCHANGED <<variant, cache, max_age, elapsed, call>>
    /\ UNCHANGED <<loopVars, restVars>>

\* one call of _fetch_data, from entry to return or raise; the HTTP answers and the
\* outcome of login() are drawn only where the code asks for them
DoFetchData ==
    /\ call = NoCall
    /\ elapsed < MaxElapsed
    /\ \E url \in URLs, no_cache \in BOOLEAN, allow_empty \in BOOLEAN, allow_http_error \in BOOLEAN,
          allowed_errors \in AllowedErrorChoices :
        LET look == CacheLookup(cache, max_age, url, no_cache)
            fetches == NeedsFetch(look, max_age, now)
        IN  \E r1 \in IF fetches THEN Responses ELSE {NoResponse} :
            \E lg \in IF r1.status = HttpUnauthorized THEN LoginOutcomes ELSE {"ok"} :
            \E r2 \in IF r1.status = HttpUnauthorized /\ lg = "ok" THEN Responses ELSE {NoResponse} :
                LET res == FetchData(variant, cache, now, max_age, url, no_cache, allow_empty,
                                     allow_http_error, allowed_errors, r1, lg, r2)
                IN  /\ cache' = res.cache
                    /\ elapsed' = elapsed + res.recorded
                    /\ call' = [url |-> url, no_cache |-> no_cache, allow_empty |-> allow_empty,
                                allow_http_error |-> allow_http_error, allowed_errors |-> allowed_errors,
                                hadEntry |-> url \in DOMAIN cache,
                                entryAge |-> IF url \in DOMAIN cache
                                             THEN now - FromIsoFormat(cache[url].date) ELSE None,
                                entryData |-> IF url \in DOMAIN cache THEN cache[url].data ELSE None,
                                cacheBefore |-> cache, elapsedBefore |-> elapsed,
                                events |-> res.events, first |-> r1, login |-> lg, second |-> r2,
                                ret |-> res.ret]
    /\ UNCHANGED <<variant, now, max_age>>
    /\ UNCHANGED <<loopVars, restVars>>

\* the caller takes the result; the next call can start
FetchReturn ==
    /\ call # NoCall
    /\ call' = NoCall
    /\ UNCHANGED <<variant, cache, now, max_age, elapsed>>
    /\ UNCHANGED <<loopVars, restVars>>

NextFetch == Tick \/ DoFetchData \/ FetchReturn

SpecFetch == InitFetch /\ [][NextFetch]_vars

\* ------------------------------------------------------------ SpecSession
InitSession ==
    /\ variant = "seatcupra"
    /\ cache = <<>>
    /\ now = 0
    /\ max_age = None
    /\ elapsed = 0
    /\ call = NoCall
    /\ InitLoopVars
    /\ intervalValue = DefaultInterval
    /\ token \in InitTokens
    /\ user_id \in {None} \cup UserIds
    /\ sess = NoSess
    /\ config_spin = None
    /\ InitVehIdle
    /\ InitCtorIdle
    /\ cmd = NoCmd

\* session.login(), from entry to return or raise
DoLogin ==
    /\ sess = NoSess
    /\ \E auth \in AuthOutcomes :
       \E frag \in IF auth \in {"shortcut", "web"} THEN FragmentTokens ELSE {NoToken} :
       \E post \in IF HasExchangeFields(frag) THEN PostResults ELSE {NoPost} :
           LET res == Login(token, auth, frag, post)
           IN  /\ token' = res.tok
               /\ sess' = [NoSess EXCEPT !.op = "login", !.tokenBefore = token, !.events = res.events,
                                         !.exc = res.exc,
                                         !.ret = IF res.exc = NoExc THEN "none" ELSE "raise",
                                         !.login = [called |-> TRUE, exc |-> res.exc,
                                                    obtained |-> res.obtained],
                                         !.auth = auth, !.frag = frag, !.exchange = post]
    /\ UNCHANGED <<user_id, connVars, cmdVars, vehVars, ctor>>

\* one call of refresh_tokens(scheme-of-token_url, refresh_token=arg) made as `op`; the
\* answers of the token endpoint and the course of login() are drawn only where the
\* code asks for them
RefreshCall(op, scheme, arg) ==
    LET secure == scheme # "" /\ IsSecureTransport(scheme)
        logsIn == secure /\ NeedsLogin(arg, StoredRefreshToken(token))
        posts == secure /\ ~NeedsLogin(arg, StoredRefreshToken(token))
    IN  \E a1 \in IF posts THEN PostResults ELSE {NoPost} :
        \E a2 \in IF a1.kind = "exc" THEN PostResults ELSE {NoPost} :
        \E a3 \in IF a2.kind = "exc" THEN PostResults ELSE {NoPost} :
        \E a4 \in IF a3.kind = "exc" THEN PostResults ELSE {NoPost} :
        \E auth \in IF logsIn THEN AuthOutcomes ELSE {"none"} :
        \E frag \in IF auth \in {"shortcut", "web"} THEN FragmentTokens ELSE {NoToken} :
        \E post \in IF HasExchangeFields(frag) THEN PostResults ELSE {NoPost} :
            LET attempts == [k \in 1..MaxAttempts |->
                                IF k = 1 THEN a1 ELSE IF k = 2 THEN a2 ELSE IF k = 3 THEN a3 ELSE a4]
                res == RefreshTokens(token, scheme, arg, attempts, auth, frag, post)
            IN  /\ token' = res.tok
                /\ sess' = [NoSess EXCEPT !.op = op, !.scheme = scheme, !.arg = arg,
                                          !.tokenBefore = token, !.events = res.events,
                                          !.attempts = attempts, !.resp = res.resp, !.exc = res.exc,
                                          !.ret = IF res.exc # NoExc THEN "raise"
                                                  ELSE IF op = "refresh" THEN "none" ELSE "token",
                                          !.login = res.login, !.auth = auth, !.frag = frag,
                                          !.exchange = post]

\* session.refresh(): refresh_tokens with the brand's https token URL and no other argument
DoRefresh ==
    /\ sess = NoSess
    /\ RefreshCall("refresh", "https", None)
    /\ UNCHANGED <<user_id, connVars, cmdVars, vehVars, ctor>>

\* refresh_tokens called with a token URL and a refresh token of the caller's choice
DoRefreshTokens ==
    /\ sess = NoSess
    /\ \E scheme \in Schemes, arg \in {None, 1} : RefreshCall("refresh_tokens", scheme, arg)
    /\ UNCHANGED <<user_id, connVars, cmdVars, vehVars, ctor>>

\* session.request(method, url, headers=...), up to the call of the parent's request
DoRequest ==
    /\ sess = NoSess
    /\ \E scheme \in Schemes, headers \in HeaderChoices :
        LET res == Request(user_id, scheme, headers)
        IN  sess' = [NoSess EXCEPT !.op = "request", !.scheme = scheme, !.tokenBefore = token,
                                   !.headers = headers, !.exc = res.exc,
                                   !.ret = IF res.exc = NoExc THEN "response" ELSE "raise",
                                   !.sent = res.sent, !.caller = res.caller,
                                   !.handedOn = res.handedOn]
    /\ UNCHANGED <<token, user_id, connVars, cmdVars, vehVars, ctor>>

\* the caller takes the result; the next call can start
SessReturn ==
    /\ sess # NoSess
    /\ sess' = NoSess
    /\ UNCHANGED <<token, user_id, connVars, cmdVars, vehVars, ctor>>

NextSession == DoLogin \/ DoRefresh \/ DoRefreshTokens \/ DoRequest \/ SessReturn

SpecSession == InitSession /\ [][NextSession]_vars

\* ------------------------------------------------------------ SpecCommand
InitCommand ==
    /\ variant = "seatcupra"
    /\ cache = <<>>
    /\ now = 0
    /\ max_age = None
    /\ elapsed = 0
    /\ call = NoCall
    /\ InitLoopVars
    /\ intervalValue = DefaultInterval
    /\ token = NoToken
    /\ user_id = None
    /\ sess = NoSess
    /\ config_spin \in ConfigSpins
    /\ InitVehIdle
    /\ InitCtorIdle
    /\ cmd = NoCmd

\* one call of the hook `h`: the state of the vehicle and the arguments are drawn as far
\* as `h` reads them, the answers to its POSTs only where it makes them
Dispatch(h) ==
    /\ cmd = NoCmd
    /\ \E hierarchyOk \in IF h = "spin" THEN {TRUE} ELSE BOOLEAN, isDict \in BOOLEAN,
          vin \in IF h = "spin" THEN {None} ELSE {None, 1},
          settings \in IF h = "climatization" THEN BOOLEAN ELSE {FALSE},
          position \in IF h = "honk_flash" THEN BOOLEAN ELSE {FALSE} :
       \E command \in IF isDict THEN Commands \cup {NoCommand} ELSE {NoCommand},
          spinArg \in IF isDict /\ h \in {"spin", "lock_unlock"} THEN {None, 1} ELSE {None} :
           LET in == [hierarchyOk |-> hierarchyOk, isDict |-> isDict, vin |-> vin, command |-> command,
                      spinArg |-> spinArg, settings |-> settings, position |-> position]
               verifies == Requested(RunCommand(h, config_spin, in, ProbeResponse, ProbeResponse).events,
                                     "POST_verify")
           IN  \E verify \in IF verifies THEN CmdResponses ELSE {NoCmdResponse} :
                   LET acts == Requested(RunCommand(h, config_spin, in, verify, ProbeResponse).events,
                                         "POST_action")
                   IN  \E action \in IF acts THEN CmdResponses ELSE {NoCmdResponse} :
                           LET res == RunCommand(h, config_spin, in, verify, action)
                           IN  cmd' = [handler |-> h, hierarchyOk |-> hierarchyOk, isDict |-> isDict,
                                       vin |-> vin, command |-> command, spinArg |-> spinArg,
                                       settings |-> settings, position |-> position,
                                       verify |-> verify, action |-> action, events |-> res.events,
                                       exc |-> res.exc, sec |-> res.sec]
    /\ UNCHANGED <<config_spin, sessVars, connVars, vehVars, ctor>>

OnChargingStartStopCommand == Dispatch("charging")
OnAirConditioningStartStopCommand == Dispatch("climatization")
OnWindowHeatingStartStopCommand == Dispatch("window_heating")
OnWakeSleepCommand == Dispatch("wake_sleep")
OnHonkFlashCommand == Dispatch("honk_flash")
OnLockUnlockCommand == Dispatch("lock_unlock")
OnSpinCommand == Dispatch("spin")

\* the caller takes the result; the next command can be dispatched
CmdReturn ==
    /\ cmd # NoCmd
    /\ cmd' = NoCmd
    /\ UNCHANGED <<config_spin, sessVars, connVars, vehVars, ctor>>

NextCommand ==
    \/ OnChargingStartStopCommand
    \/ OnAirConditioningStartStopCommand
    \/ OnWindowHeatingStartStopCommand
    \/ OnWakeSleepCommand
    \/ OnHonkFlashCommand
    \/ OnLockUnlockCommand
    \/ OnSpinCommand
    \/ CmdReturn

SpecCommand == InitCommand /\ [][NextCommand]_vars

\* ------------------------------------------- specification: fetch_vehicles
InitVehicles ==
    /\ variant = "seatcupra"
    /\ cache = <<>>
    /\ now = 0
    /\ max_age = None
    /\ elapsed = 0
    /\ call = NoCall
    /\ InitLoopVars
    /\ intervalValue = DefaultInterval
    /\ token = NoToken
    /\ user_id = None
    /\ sess = NoSess
    /\ config_spin = None
    /\ cmd = NoCmd
    /\ InitVehIdle
    /\ InitCtorIdle

\* one call of fetch_vehicles, from entry to return or raise, made by fetch_all after it
\* has registered the spin command; a capabilities response is drawn for the listed
\* vehicles only
DoFetchVehicles ==
    /\ ~vcall.active
    /\ \E list \in VehicleLists :
       \E capsOf \in {f \in [VehicleVins -> CapabilityResponses] :
                        \A vin \in VehicleVins \ list.vins : f[vin] = NoCapabilities} :
       \E updateExc \in {NoExc, "RetrievalError"} :
            LET res == FetchVehicles(vehicles, list, capsOf, updateExc)
            IN  /\ vehicles' = res.vehicles
                /\ self_commands' = AddSpinCommand(self_commands)
                /\ vcall' = [active |-> TRUE, list |-> list, capsOf |-> capsOf, before |-> vehicles,
                             exc |-> res.exc]
    /\ UNCHANGED <<connVars, sessVars, cmdVars, ctor>>

\* the caller takes the result; the next call can start
VehReturn ==
    /\ vcall.active
    /\ vcall' = NoVCall
    /\ UNCHANGED <<vehicles, self_commands, connVars, sessVars, cmdVars, ctor>>

NextVehicles == DoFetchVehicles \/ VehReturn

SpecVehicles == InitVehicles /\ [][NextVehicles]_vars

\* --------------------------------------- specification: Connector.__init__
InitConstructor ==
    /\ variant = "seatcupra"
    /\ cache = <<>>
    /\ now = 0
    /\ max_age = None
    /\ elapsed = 0
    /\ call = NoCall
    /\ InitLoopVars
    /\ intervalValue = DefaultInterval
    /\ InitRestIdle

\* one call of Connector(connector_id, car_connectivity, config); the netrc file is drawn
\* only when it is read, the session and its refresh only when they are reached
Construct ==
    /\ ~ctor.done
    /\ \E cfg \in [username : ConfigUsernames, password : ConfigPasswords, spin : ConfigPins,
                    interval : ConfigIntervals, brand : ConfigBrands] :
       \E netrcFile \in IF CredentialsInConfig(cfg) THEN {NoNetrcEntry("absent")} ELSE NetrcFiles :
       \E isSession \in IF Constructor(cfg, netrcFile, TRUE, NoExc).sessionCreated
                         THEN BOOLEAN ELSE {FALSE} :
       \E refreshExc \in IF Constructor(cfg, netrcFile, isSession, NoExc).refreshed
                          THEN RefreshOutcomes ELSE {NoExc} :
            ctor' = [done |-> TRUE, cfg |-> cfg, netrcFile |-> netrcFile, isSession |-> isSession,
                     refreshExc |-> refreshExc,
                     res |-> Constructor(cfg, netrcFile, isSession, refreshExc)]
    /\ UNCHANGED <<connVars, sessVars, cmdVars, vehVars>>

\* the caller takes the connector or the exception; another one can be constructed
CtorReturn ==
    /\ ctor.done
    /\ ctor' = NoCtor
    /\ UNCHANGED <<connVars, sessVars, cmdVars, vehVars>>

NextConstructor == Construct \/ CtorReturn

SpecConstructor == InitConstructor /\ [][NextConstructor]_vars

\* ------------------------------------------------- properties of _fetch_data
InCall == call # NoCall
GetCount(ev) == Len(SelectSeq(ev, LAMBDA e : e = "GET"))
LoginCount(ev) == Len(SelectSeq(ev, LAMBDA e : e = "login"))
EntryStale == call.hadEntry /\ max_age # None /\ call.entryAge > max_age
EntryFresh == call.hadEntry /\ max_age # None /\ call.entryAge <= max_age

\* C1: the value _fetch_data returns is never a cached payload older than max_age,
\* and no cached payload is returned at all when max_age is None.
C1_NoStaleCacheServed ==
    (InCall /\ call.ret.kind = "return" /\ call.ret.origin = "cache")
        => (max_age # None /\ call.entryAge <= max_age)

C4_TooManyRequestsAlwaysRaised ==
    (InCall /\ (call.first.status = HttpTooManyRequests \/ call.second.status = HttpTooManyRequests))
        => (call.ret.kind = "raise" /\ call.ret.exc = "TooManyRequestsError")

\* C5: for an entry older than max_age, _fetch_data issues one GET, and a second one
\* only when the first was answered with 401: never none, never more than two.
C5_StaleEntryRefetched ==
    (InCall /\ EntryStale)
        => /\ GetCount(call.events) \in {1, 2}
           /\ (GetCount(call.events) = 2 => call.first.status = HttpUnauthorized)

C5_Witness ==
    /\ InCall /\ EntryStale /\ ~call.no_cache
    /\ call.events = <<"GET">> /\ call.first.status = HttpOk
    /\ call.ret.kind = "return" /\ call.ret.origin = "http"

\* ----------------------------------------------- properties of the poll loop
\* the exception classes the spec names as retried at the configured interval
RetriedAtInterval ==
    {"RetrievalError", "APIError", "APICompatibilityError", "TemporaryAuthenticationError"}

\* shutdown() is past self._stop_event.set()
ShutdownSignalled == mainPc \in {"close", "join", "persist", "base", "shutdownDone"}

\* C6: the handler of a cycle that raised TooManyRequestsError marks the connection as
\* failed (connection_state ERROR; the cupra connector has only `connected`, left False)
\* and waits 900 seconds whatever the interval is; when that wait returns the worker is
\* back at the loop condition.
C6_TooManyRequestsWaits900 ==
    [][ /\ (workerPc = "handle" /\ cycleOutcome = "TooManyRequestsError" /\ workerPc' # "handle")
            => /\ workerPc' = "waiting"
               /\ waitSecs' = TooManyRequestsWait
               /\ (variant = "seatcupra" => connection_state' = "ERROR")
               /\ (variant = "cupra" => connected' = FALSE)
        /\ (workerPc = "waiting" /\ cycleOutcome = "TooManyRequestsError" /\ workerPc' # "waiting")
            => (workerPc' = "loopCheck" /\ waitSecs = TooManyRequestsWait)
      ]_vars

C6_Witness ==
    /\ workerPc = "waiting" /\ cycleOutcome = "TooManyRequestsError"
    /\ waitSecs = TooManyRequestsWait /\ interval > TooManyRequestsWait
    /\ variant = "seatcupra" /\ connection_state = "ERROR"

\* C7: a cycle that raised RetrievalError, APIError, APICompatibilityError or
\* TemporaryAuthenticationError never terminates the worker: it marks ERROR and waits
\* the interval read from the interval attribute.
C7_RetriedErrorsKeepWorkerAlive ==
    /\ (workerPc = "dead" => cycleOutcome \notin RetriedAtInterval)
    /\ (workerPc = "waiting" /\ cycleOutcome \in RetriedAtInterval)
        => (waitSecs = interval /\ (variant = "seatcupra" => connection_state = "ERROR"))

\* C8: in the seatcupra connector the handler of a cycle that raised any other exception
\* sets connection_state to ERROR and healthy to False and ends the thread; a dead worker
\* runs no further cycle and no wait.
C8_FatalExceptionStopsWorker ==
    [][ variant = "seatcupra" =>
        /\ (workerPc = "handle" /\ workerPc' # "handle"
            /\ cycleOutcome \notin (RetriedAtInterval \cup {"TooManyRequestsError", "ok"}))
            => /\ workerPc' = "dead"
               /\ connection_state' = "ERROR"
               /\ healthy' = FALSE
               /\ waitSecs' = waitSecs
        /\ workerPc = "dead"
            => (workerPc' = "dead" /\ UNCHANGED <<cycleOutcome, waitSecs, last_update, connection_state, fetch>>)
      ]_vars

C8_Witness ==
    /\ variant = "seatcupra" /\ workerPc = "dead" /\ cycleOutcome = "AuthenticationError"
    /\ connection_state = "ERROR" /\ healthy = FALSE

\* C9: the session is closed only after the started worker thread has ended and
\* shutdown()'s join has returned.
C9_SessionClosedAfterJoin ==
    sessionClosed => (workerPc = "notStarted" \/ (joined /\ WorkerEnded))

\* C10: the stop signal set by shutdown() is never lost: once shutdown() is past
\* _stop_event.set() the event stays set, so the worker cannot go on polling.
C10_StopSignalNeverLost ==
    (variant = "seatcupra" /\ ShutdownSignalled) => stop_event

\* the worker is inside the while loop of _background_loop
InLoop == workerPc \in {"loopCheck", "cycle", "handle", "waiting"}

\* C11 as stated: in the seatcupra connector the first iteration calls fetch_all and
\* every later iteration calls update_vehicles, whatever the earlier iterations ended with.
C11_OnlyFirstIterationDiscovers ==
    (variant = "seatcupra" /\ iteration >= 1) => (cycleOp = "fetch_all" <=> iteration = 1)

\* C11 amended: in the seatcupra connector the first iteration calls fetch_all, and an
\* iteration calls fetch_all exactly when no earlier fetch_all has returned without an
\* exception; once one has, every later iteration calls update_vehicles only.
C11_DiscoveryUntilSucceeded ==
    [][ (variant = "seatcupra" /\ workerPc = "cycle" /\ workerPc' = "handle")
            => /\ cycleOp' = IF discovered THEN "update_vehicles" ELSE "fetch_all"
               /\ (iteration = 0 => cycleOp' = "fetch_all")
               /\ (cycleOp = "update_vehicles" => cycleOp' = "update_vehicles")
      ]_vars

C11_Witness ==
    /\ variant = "seatcupra" /\ workerPc = "handle"
    /\ iteration = 2 /\ cycleOp = "fetch_all" /\ ~discovered /\ cycleOutcome = "RetrievalError"

\* C12: once the stop event is set while the seatcupra worker is inside the loop, the
\* event stays set, a wait the worker is in returns to the loop condition, the loop
\* condition leads out of the loop, no further fetch cycle is started, and the worker
\* ends: with connection_state DISCONNECTED, or by the fatal exception of the cycle it
\* was in.
C12_StopEndsLoop ==
    /\ [][ (variant = "seatcupra" /\ stop_event /\ InLoop)
              => /\ stop_event'
                 /\ (workerPc # "cycle" => workerPc' # "cycle")
                 /\ (workerPc = "waiting" /\ workerPc' # workerPc => workerPc' = "loopCheck")
                 /\ (workerPc = "loopCheck" /\ workerPc' # workerPc => workerPc' = "leaving")
          ]_vars
    /\ [][ (variant = "seatcupra" /\ workerPc = "leaving" /\ workerPc' # workerPc)
              => (workerPc' = "done" /\ connection_state' = "DISCONNECTED")
          ]_vars
    /\ ((variant = "seatcupra" /\ stop_event /\ InLoop)
            ~> (workerPc = "dead" \/ (workerPc = "done" /\ connection_state = "DISCONNECTED")))

C12_Witness ==
    /\ variant = "seatcupra" /\ stop_event /\ workerPc = "done"
    /\ connection_state = "DISCONNECTED" /\ iteration = 2 /\ cycleOutcome = "ok"

\* C13: in the seatcupra connector a cycle that raised no exception has recorded
\* last_update in that iteration, has set connection_state to CONNECTED and waits the
\* interval read from the interval attribute; outside a handler, connection_state is
\* CONNECTED only if the last cycle raised no exception.
C13_SuccessfulCycleConnected ==
    variant = "seatcupra" =>
        /\ (workerPc = "waiting" /\ cycleOutcome = "ok")
            => (last_update = iteration /\ connection_state = "CONNECTED" /\ waitSecs = interval)
        /\ (workerPc \notin {"cycle", "handle"} /\ connection_state = "CONNECTED")
            => (cycleOutcome = "ok" /\ iteration >= 1)

C13_Witness ==
    /\ variant = "seatcupra" /\ workerPc = "waiting" /\ cycleOutcome = "ok"
    /\ iteration = 2 /\ last_update = 2 /\ connection_state = "CONNECTED" /\ waitSecs = 1200

\* ------------------------------------------------ properties of the session
RefreshOps == {"refresh", "refresh_tokens"}
RefreshPostCount == Len(SelectSeq(sess.events, LAMBDA e : e = "POST_refresh"))
SessLoginCount == Len(SelectSeq(sess.events, LAMBDA e : e = "login"))
\* the token response of the recorded refresh carries no refresh token under either key
ResponseWithoutRefreshToken ==
    /\ sess.resp.kind = "resp" /\ sess.resp.status = HttpOk /\ sess.resp.body.json
    /\ sess.resp.body.refreshToken = None /\ sess.resp.body.refresh_token = None

\* C14: refresh() called while the session holds no refresh_token calls login() once,
\* issues no refresh POST, and ends as that login() ended: it raises what login() raised,
\* and returns None, as login() does, when login() returned.
C14_RefreshWithoutTokenLogsIn ==
    (sess.op = "refresh" /\ StoredRefreshToken(sess.tokenBefore) = None)
        => /\ sess.login.called
           /\ SessLoginCount = 1 /\ Head(sess.events) = "login"
           /\ RefreshPostCount = 0
           /\ sess.exc = sess.login.exc
           /\ (sess.login.exc = NoExc => sess.ret = "none")

C14_Witness ==
    /\ sess.op = "refresh" /\ sess.tokenBefore = NoToken
    /\ sess.login.called /\ sess.login.obtained /\ sess.exc = NoExc
    /\ sess.events = <<"login", "POST_exchange">> /\ token.refresh_token = 2

\* C15: after a refresh() that got HTTP 200 with a token response without a refresh
\* token, the token set holds the refresh_token stored before that refresh, and it is
\* not absent.
C15_RefreshTokenRetained ==
    (sess.op = "refresh" /\ sess.exc = NoExc /\ ResponseWithoutRefreshToken)
        => /\ token.present
           /\ token.refresh_token # None
           /\ token.refresh_token = StoredRefreshToken(sess.tokenBefore)

C15_Witness ==
    /\ sess.op = "refresh" /\ sess.exc = NoExc /\ ResponseWithoutRefreshToken
    /\ sess.tokenBefore.refresh_token = 2 /\ sess.tokenBefore.access_token = 2
    /\ token.refresh_token = 2

\* C16: a call of refresh_tokens that posts issues the token POST one to three times:
\* after a network-level exception it posts again, the third such exception in a row
\* raises TemporaryAuthenticationError, and the first response, on attempt 1, 2 or 3,
\* ends the retrying and decides the outcome by its status.
C16_AtMostThreePosts ==
    sess.op \in RefreshOps =>
        LET responded == {k \in 1..3 : sess.attempts[k].kind = "resp"}
            first == CHOOSE k \in responded : \A j \in responded : k <= j
        IN  /\ RefreshPostCount <= 3
            /\ (sess.attempts[1].kind = "none" <=> RefreshPostCount = 0)
            /\ (sess.attempts[1].kind # "none" /\ responded = {})
                => (RefreshPostCount = 3 /\ sess.exc = "TemporaryAuthenticationError"
                    /\ sess.resp = NoPost)
            /\ responded # {}
                => /\ RefreshPostCount = first
                   /\ sess.resp = sess.attempts[first]
                   /\ (sess.resp.status = HttpUnauthorized => sess.exc = "AuthenticationError")
                   /\ (sess.resp.status = HttpOk /\ sess.resp.body.json => sess.exc = NoExc)

C16_Witness ==
    /\ sess.op = "refresh" /\ RefreshPostCount = 3
    /\ sess.attempts[1].kind = "exc" /\ sess.attempts[2].kind = "exc"
    /\ sess.attempts[3].kind = "resp" /\ sess.attempts[3].status = HttpOk
    /\ sess.exc = NoExc /\ token.access_token = 2

\* C17: refresh_tokens maps the status of the token response to its outcome: 401 raises
\* AuthenticationError without a login(), every status from 500 to 599 raises
\* TemporaryAuthenticationError, every other status but 200 raises RetrievalError.
C17_StatusMapping ==
    (sess.op \in RefreshOps /\ sess.resp.kind = "resp")
        => /\ (sess.resp.status = HttpUnauthorized
                  => (sess.exc = "AuthenticationError" /\ ~sess.login.called))
           /\ (sess.resp.status \in 500..599 => sess.exc = "TemporaryAuthenticationError")
           /\ (sess.resp.status \notin ({HttpOk, HttpUnauthorized} \cup (500..599))
                  => sess.exc = "RetrievalError")

\* C18: login() raises TemporaryAuthenticationError when the token endpoint answers
\* non-200, raises AuthenticationError when the token parsed from the authorization
\* response lacks state, id_token, access_token or code, and returns only when the
\* exchange has obtained tokens.
C18_LoginFailsWithoutTokens ==
    (sess.op = "login" /\ sess.auth \in {"shortcut", "web"})
        => /\ (sess.exchange.kind = "resp" /\ sess.exchange.status # HttpOk
                  => sess.exc = "TemporaryAuthenticationError")
           /\ (~HasExchangeFields(sess.frag) => sess.exc = "AuthenticationError")
           /\ (sess.exc = NoExc => sess.login.obtained)

\* C19: request raises InsecureTransportError for every URL whose scheme is not https,
\* hands nothing on and leaves the caller's headers as they were; for an https URL it
\* hands the request on, with user-id set to the session's user id and the other
\* entries kept when the user id is known, and with the headers as given when it is not.
C19_RequestTlsAndUserId ==
    sess.op = "request" =>
        IF sess.scheme \in {"https", "HTTPS"}
        THEN /\ sess.exc = NoExc /\ sess.handedOn
             /\ (user_id # None
                    => (sess.sent.given /\ sess.sent.uid = user_id
                        /\ sess.sent.accept = sess.headers.accept))
             /\ (user_id = None => sess.sent = sess.headers)
        ELSE /\ sess.exc = "InsecureTransportError" /\ ~sess.handedOn
             /\ sess.caller = sess.headers

C19_Witness ==
    /\ sess.op = "request" /\ sess.scheme = "https" /\ user_id = 7
    /\ sess.headers.uid = 9 /\ sess.sent.uid = 7 /\ sess.sent.accept /\ sess.handedOn

\* ------------------------------------------------- properties of commands
\* C20: every command hook called with a mapping that has no 'command' key raises
\* CommandError and has made no HTTP request: no action POST and no security-token
\* exchange.
C20_MissingCommandNoHttp ==
    (cmd.handler \in Handlers /\ cmd.isDict /\ cmd.command = NoCommand)
        => (cmd.exc = "CommandError" /\ cmd.events = <<>>)

C20_Witness ==
    /\ cmd.handler = "lock_unlock" /\ cmd.isDict /\ cmd.command = NoCommand
    /\ cmd.hierarchyOk /\ cmd.vin # None /\ cmd.spinArg # None /\ config_spin # None
    /\ cmd.exc = "CommandError" /\ cmd.events = <<>>

\* the response whose status decides how the recorded _fetch_data call ends: that of
\* the first GET, or that of the GET retried after login()
FinalIsFirst == call.first.kind = "resp" /\ call.first.status # HttpUnauthorized
FinalIsSecond == GetCount(call.events) = 2 /\ call.second.kind = "resp"
Final == IF FinalIsSecond THEN call.second ELSE call.first
FinalNonSuccess == InCall /\ (FinalIsFirst \/ FinalIsSecond) /\ ~IsSuccessStatus(Final.status)
FinalSuccess == InCall /\ (FinalIsFirst \/ FinalIsSecond) /\ IsSuccessStatus(Final.status)

\* the status is a member of the allowed_errors the caller passed
InAllowedErrors(st) == call.allowed_errors # NoAllowedErrors /\ st \in call.allowed_errors

\* allow_http_error is set and allowed_errors, if given, holds the status
Tolerated(st) ==
    call.allow_http_error /\ (call.allowed_errors = NoAllowedErrors \/ st \in call.allowed_errors)

\* the GET responses the recorded call received
ResponseCount ==
    (IF call.first.kind = "resp" THEN 1 ELSE 0) + (IF call.second.kind = "resp" THEN 1 ELSE 0)

\* C25 (as stated): a call whose deciding response has a status other than 200/207
\* returns only if the status is in allowed_errors or is 204 with allow_empty, raises
\* RetrievalError (TooManyRequestsError is one) otherwise, and never raises when the
\* status is in allowed_errors.
C25_OnlyAllowedErrorsReturn ==
    FinalNonSuccess =>
        LET st == Final.status
            excused == InAllowedErrors(st) \/ (st = HttpNoContent /\ call.allow_empty)
        IN  /\ call.ret.kind = "return" => excused
            /\ ~excused => call.ret.exc \in {"RetrievalError", "TooManyRequestsError"}
            /\ InAllowedErrors(st) => call.ret.kind = "return"

\* C25 (amended): a call whose deciding response has a status other than 200/207 returns
\* exactly when allow_http_error is set and allowed_errors is None or holds the status,
\* or when the first GET was answered 204 with allow_empty; otherwise it raises
\* RetrievalError; a 429 on the first GET raises TooManyRequestsError in every case.
C25_ToleratedStatusesReturn ==
    FinalNonSuccess =>
        LET st == Final.status
        IN  IF FinalIsFirst /\ st = HttpTooManyRequests
            THEN call.ret.exc = "TooManyRequestsError"
            ELSE IF (FinalIsFirst /\ EmptyAccepted(variant, st, call.allow_empty)) \/ Tolerated(st)
            THEN call.ret.kind = "return"
            ELSE call.ret.exc = "RetrievalError"

C25_Witness ==
    /\ FinalNonSuccess /\ FinalIsSecond /\ call.second.status = 404
    /\ call.allow_http_error /\ call.allowed_errors = {404} /\ call.ret.kind = "return"

\* C26: a GET of _fetch_data that fails with ConnectionError, ChunkedEncodingError,
\* ReadTimeout or RetryError, first or retried, ends the call with RetrievalError; a
\* 200/207 body that is not JSON ends it with RetrievalError when allow_empty is false
\* and with the return value None when allow_empty is true.
C26_NetworkAndJsonErrors ==
    InCall =>
        /\ (call.first.kind = "exc" \/ call.second.kind = "exc") => call.ret = Raised("RetrievalError")
        /\ (FinalSuccess /\ Final.body = BadJson)
            => call.ret = (IF call.allow_empty THEN Returned(None, "none") ELSE Raised("RetrievalError"))

C26_Witness ==
    /\ FinalSuccess /\ FinalIsSecond /\ Final.body = BadJson /\ call.allow_empty
    /\ call.hadEntry /\ call.ret = Returned(None, "none")

\* C27: a call whose deciding response is 200/207 with a JSON body returns that body and
\* leaves the cache entry of the URL holding that body and the current time, whatever
\* no_cache is and whether or not an entry existed.
C27_SuccessOverwritesEntry ==
    (FinalSuccess /\ Final.body # BadJson) =>
        /\ call.ret = Returned(Final.body, "http")
        /\ call.url \in DOMAIN cache
        /\ cache[call.url] = [data |-> call.ret.data, date |-> DateStr(now)]

C27_Witness ==
    /\ FinalSuccess /\ FinalIsSecond /\ Final.body # BadJson /\ call.no_cache
    /\ call.hadEntry /\ call.entryData # call.ret.data /\ call.entryAge > 0
    /\ cache[call.url] = [data |-> call.ret.data, date |-> DateStr(now)]

\* C28: a call of _fetch_data lengthens the list of elapsed times by the number of GET
\* responses it received.
C28_OneEntryPerResponse ==
    InCall => elapsed = call.elapsedBefore + ResponseCount

\* the statuses of the action POST a hook takes as success
AcceptedStatuses(h) ==
    IF h \in {"charging", "climatization", "window_heating"} THEN {HttpOk, HttpCreated}
    ELSE IF h = "spin" THEN {HttpCreated}
    ELSE IF h \in {"wake_sleep", "honk_flash"} THEN {HttpOk, HttpNoContent}
    ELSE {HttpOk}

\* the verify endpoint answered with a security token
ExchangeYieldedToken ==
    cmd.verify.kind = "resp" /\ cmd.verify.status = HttpCreated /\ cmd.verify.secToken # None

\* a POST of the recorded command failed: an exception, or a status that is not success
PostFailed(resp, accepted) ==
    resp.kind = "exc" \/ (resp.kind = "resp" /\ resp.status \notin accepted)

\* C21: in __on_lock_unlock an action POST is always preceded by the POST to the verify
\* endpoint, carries as SecToken the token that exchange returned, and is not sent when
\* the exchange yielded no token; with a token and HTTP 200 on the action POST the hook
\* returns without an error.
C21_SecTokenBeforeAction ==
    cmd.handler = "lock_unlock" =>
        /\ Requested(cmd.events, "POST_action")
            => /\ cmd.events = <<"POST_verify", "POST_action">>
               /\ ExchangeYieldedToken
               /\ cmd.sec = cmd.verify.secToken
        /\ ~ExchangeYieldedToken => ~Requested(cmd.events, "POST_action")
        /\ (Requested(cmd.events, "POST_action") /\ cmd.action.kind = "resp"
            /\ cmd.action.status = HttpOk) => cmd.exc = NoExc

C21_Witness ==
    /\ cmd.handler = "lock_unlock" /\ cmd.command = "LOCK"
    /\ cmd.events = <<"POST_verify", "POST_action">> /\ cmd.sec = 5
    /\ cmd.action.kind = "resp" /\ cmd.action.status = HttpOk /\ cmd.exc = NoExc

\* C22: every hook whose action POST was answered with a status it takes as success
\* returns its arguments and raises nothing.
C22_SuccessReturnsArguments ==
    (cmd.handler \in Handlers /\ Requested(cmd.events, "POST_action")
     /\ cmd.action.kind = "resp" /\ cmd.action.status \in AcceptedStatuses(cmd.handler))
        => cmd.exc = NoExc

\* C23: a command whose security-token exchange or action POST failed, by an exception
\* or by a status that is not success, ends with CommandError; no other exception ever
\* leaves a hook that made a request.
C23_HttpFailuresAreCommandErrors ==
    (cmd.handler \in Handlers /\ cmd.events # <<>>)
        => /\ cmd.exc \in {NoExc, "CommandError"}
           /\ (Requested(cmd.events, "POST_verify") /\ PostFailed(cmd.verify, {HttpCreated}))
                => cmd.exc = "CommandError"
           /\ (Requested(cmd.events, "POST_action")
               /\ PostFailed(cmd.action, AcceptedStatuses(cmd.handler)))
                => cmd.exc = "CommandError"

\* C24: every hook called with arguments that are not a dict raises CommandError, the
\* error it raises for a missing 'command' key, and has made no HTTP request.
C24_NonMappingIsCommandError ==
    (cmd.handler \in Handlers /\ ~cmd.isDict)
        => (cmd.exc = "CommandError" /\ cmd.events = <<>>)

\* C30: in the seatcupra loop a cycle that met a malformed vendor payload ends with
\* APIError, is followed by a wait of the configured interval, and never ends the worker.
C30_MalformedPayloadRetried ==
    (variant = "seatcupra" /\ cycleDefect # "none" /\ workerPc \in {"handle", "waiting", "dead"})
        => /\ cycleOutcome = "APIError"
           /\ workerPc # "dead"
           /\ workerPc = "waiting" => waitSecs = interval

\* ---------------------------------------------- properties of fetch_vehicles
\* the recorded fetch_vehicles call returned
FetchCompleted == vcall.active /\ vcall.exc = NoExc

\* C29: after a fetch_vehicles call that returned, every listed vehicle whose capabilities
\* response carried a list has exactly the ids of that list as its capability set.
C29_CapabilitiesMatchResponse ==
    FetchCompleted =>
        \A vin \in vcall.list.vins :
            vcall.capsOf[vin].kind = "list" => vehicles[vin].capabilities = vcall.capsOf[vin].ids

\* ------------------------------------------ further properties of commands
\* how often the request `e` is among the requests made
RequestCount(events, e) == Len(SelectSeq(events, LAMBDA x : x = e))

\* the values of 'command' a hook has a branch for that sends the command
SupportedCommands(h) ==
    IF h \in {"charging", "climatization", "window_heating"} THEN {"START", "STOP"}
    ELSE IF h = "spin" THEN {"VERIFY"}
    ELSE IF h = "wake_sleep" THEN {"WAKE"}
    ELSE IF h = "honk_flash" THEN {"FLASH", "HONK_AND_FLASH"}
    ELSE {"LOCK", "UNLOCK"}

\* C31: a command hook sends its action POST at most once and never calls
\* session.login(); an action POST answered with a status the hook does not accept
\* (401 among them) ends the hook with an error.
C31_OnePostNoRelogin ==
    cmd.handler \in Handlers =>
        /\ RequestCount(cmd.events, "POST_action") <= 1
        /\ RequestCount(cmd.events, "POST_verify") <= 1
        /\ ~Requested(cmd.events, "login")
        /\ (Requested(cmd.events, "POST_action") /\ cmd.action.kind = "resp"
            /\ cmd.action.status \notin AcceptedStatuses(cmd.handler)) => cmd.exc # NoExc

C31_Witness ==
    /\ cmd.handler = "charging" /\ cmd.action.kind = "resp" /\ cmd.action.status = HttpUnauthorized
    /\ cmd.events = <<"POST_action">> /\ cmd.exc = "CommandError"

\* C39: a hook whose arguments pass the checks and carry a 'command' value it does not
\* support raises CommandError and has made no HTTP request.
C39_UnsupportedCommandNoHttp ==
    (cmd.handler \in Handlers /\ Validate(cmd.handler, cmd) = NoExc
     /\ cmd.command \notin SupportedCommands(cmd.handler))
        => (cmd.exc = "CommandError" /\ cmd.events = <<>>)

\* --------------------------------------------- properties of the constructor
\* no username/password pair can be resolved: the netrc file is needed and has no
\* usable entry, or a credential is still None after both paths
Unresolvable ==
    /\ ctor.done
    /\ \/ (~CredentialsInConfig(ctor.cfg) /\ ctor.netrcFile.kind # "entry")
       \/ (CredentialsInConfig(ctor.cfg) /\ (ctor.cfg.username = None \/ ctor.cfg.password = None))

\* the rest of the configuration passes the checks of interval and brand
ConfigOtherwiseValid ==
    /\ (ctor.cfg.interval = Missing \/ ctor.cfg.interval >= MinInterval)
    /\ ctor.cfg.brand \in {"missing", "seat", "cupra"}

\* C33: with username and password both in the config the netrc file is not read and
\* active_config holds the configured values; otherwise they are the login and password
\* of the netrc entry, and the PIN is the configured one if there is one, else the
\* account of the entry if it has one.
C33_CredentialResolution ==
    ctor.done =>
        /\ CredentialsInConfig(ctor.cfg)
            => /\ ~ctor.res.netrcRead
               /\ ctor.res.username = ctor.cfg.username /\ ctor.res.password = ctor.cfg.password
               /\ ctor.res.spin = ConfiguredSpin(ctor.cfg)
        /\ (~CredentialsInConfig(ctor.cfg) /\ ctor.netrcFile.kind = "entry")
            => /\ ctor.res.netrcRead
               /\ ctor.res.username = ctor.netrcFile.login /\ ctor.res.password = ctor.netrcFile.password
               /\ ctor.res.spin = (IF ConfiguredSpin(ctor.cfg) # None THEN ConfiguredSpin(ctor.cfg)
                                   ELSE ctor.netrcFile.account)

C33_Witness ==
    /\ ctor.done /\ ctor.cfg.username = 1 /\ ctor.cfg.password = Missing /\ ctor.cfg.spin = 5
    /\ ctor.netrcFile.kind = "entry" /\ ctor.netrcFile.account = 6
    /\ ctor.res.username = 2 /\ ctor.res.password = 4 /\ ctor.res.spin = 5 /\ ctor.res.exc = NoExc

\* C34 (as stated): whenever no username/password pair can be resolved the constructor
\* raises AuthenticationError and has created no session and called no refresh().
C34_UnresolvableIsAuthenticationError ==
    Unresolvable =>
        (ctor.res.exc = "AuthenticationError" /\ ~ctor.res.sessionCreated /\ ~ctor.res.refreshed)

\* C34 (amended): whenever no username/password pair can be resolved the constructor
\* fails and has created no session and called no refresh(); the error is
\* AuthenticationError, except that a pair given in the config with a None value is met
\* only after the checks of interval and brand, which raise ValueError first.
C34_UnresolvableFailsBeforeSession ==
    Unresolvable =>
        /\ ~ctor.res.sessionCreated /\ ~ctor.res.refreshed
        /\ ctor.res.exc = (IF CredentialsInConfig(ctor.cfg) /\ ~ConfigOtherwiseValid
                           THEN "ValueError" ELSE "AuthenticationError")

C34_Witness ==
    /\ Unresolvable /\ CredentialsInConfig(ctor.cfg) /\ ctor.cfg.password = None /\ ctor.cfg.username = 1
    /\ ConfigOtherwiseValid /\ ctor.res.exc = "AuthenticationError" /\ ~ctor.res.sessionCreated

\* ------------------------------------------- further properties of the threads
\* the background thread does not run: not started yet, or ended
WorkerNotRunning == workerPc = "notStarted" \/ WorkerEnded

\* C35: in the seatcupra connector a worker that an unrecognized exception has ended
\* never coexists with healthy = True, whatever the interleaving with startup().
C35_DeadWorkerUnhealthy ==
    (variant = "seatcupra" /\ workerPc = "dead") => ~healthy

\* C36 (as stated): whenever the worker of the seatcupra connector is not running, the
\* connection state is DISCONNECTED.
C36_NotRunningDisconnected ==
    (variant = "seatcupra" /\ WorkerNotRunning) => connection_state = "DISCONNECTED"

\* C36 (amended): a worker that was never started or that left its loop on the stop
\* signal leaves the connection state DISCONNECTED, also after shutdown() has returned;
\* a worker ended by an unrecognized exception leaves it ERROR; CONNECTING and CONNECTED
\* are seen only while the worker runs.
C36_StateOfEndedWorker ==
    variant = "seatcupra" =>
        /\ workerPc \in {"notStarted", "done"} => connection_state = "DISCONNECTED"
        /\ workerPc = "dead" => connection_state = "ERROR"
        /\ connection_state \in {"CONNECTING", "CONNECTED"} => ~WorkerNotRunning

C36_Witness ==
    /\ variant = "seatcupra" /\ mainPc = "shutdownDone" /\ workerPc = "done"
    /\ iteration >= 1 /\ cycleOutcome = "ok" /\ connection_state = "DISCONNECTED"

\* C37: once shutdown() of the seatcupra connector has returned, the garage holds none
\* of the connector's vehicles.
C37_GarageEmptyAfterShutdown ==
    (variant = "seatcupra" /\ mainPc = "shutdownDone") => garage = {}

\* ------------------------------------------ the cache after a failed fetch
\* C38: a _fetch_data call that raises TooManyRequestsError or RetrievalError, or that
\* returns None for a 204 answer, leaves the response cache as it was before the call:
\* no entry added, removed or re-stamped.
C38_FailedFetchKeepsCache ==
    (InCall /\ \/ (call.ret.kind = "raise" /\ call.ret.exc \in {"TooManyRequestsError", "RetrievalError"})
               \/ (call.ret.kind = "return" /\ call.ret.data = None
                      /\ HttpNoContent \in {call.first.status, call.second.status}))
        => cache = call.cacheBefore

\* a stale entry is in the cache, the retried GET fails, and the entry is still there
C38_Witness ==
    /\ InCall /\ call.hadEntry /\ call.events = <<"GET", "login", "GET">>
    /\ call.ret.kind = "raise" /\ call.ret.exc = "RetrievalError"
    /\ call.url \in DOMAIN cache /\ cache[call.url].data = call.entryData
    /\ cache = call.cacheBefore

\* ------------------------------------- the token set after a failed login
\* login() got as far as the token endpoint and the exchange failed there: a non-200
\* answer or a body that cannot be decoded
ExchangeFailed ==
    /\ sess.op = "login" /\ sess.auth \in {"shortcut", "web"}
    /\ sess.exchange.kind = "resp"
    /\ sess.exc = "TemporaryAuthenticationError"

\* C40: a login() that fails at the token endpoint with TemporaryAuthenticationError
\* leaves the session's token set as it was before the login, so the refresh token
\* held before is still the stored one.
C40_FailedLoginKeepsTokens ==
    ExchangeFailed
        => /\ token = sess.tokenBefore
           /\ StoredRefreshToken(token) = StoredRefreshToken(sess.tokenBefore)

\* ------------------------------------------- registration of the commands
\* C32: command registration is idempotent by name: after any number of vehicle-list
\* fetches, the connector's container and each vehicle's containers hold at most one
\* command of each name.
C32_OneCommandPerName ==
    /\ \A name \in ConnectorCommands : CopiesIn(name, self_commands) <= 1
    /\ \A vin \in VehicleVins : \A name \in VehicleCommands :
          CopiesIn(name, vehicles[vin].commands) <= 1

\* a vehicle that had both commands before is fetched again with the charging capability,
\* and every container still holds each command once
C32_Witness ==
    /\ vcall.active /\ vcall.exc = NoExc
    /\ \E vin \in vcall.list.vins :
          /\ vcall.before[vin].present
          /\ \A name \in VehicleCommands : CopiesIn(name, vcall.before[vin].commands) = 1
          /\ vcall.capsOf[vin].kind = "list" /\ ~vcall.capsOf[vin].missingId
          /\ "charging" \in vcall.capsOf[vin].ok
          /\ \A name \in VehicleCommands : CopiesIn(name, vehicles[vin].commands) = 1
    /\ CopiesIn("spin", self_commands) = 1

====
